---------------------------- MODULE Spec2Model ----------------------------
(***************************************************************************)
(* Model of the cognitive agent of hsinghweb/eag-v2-s7.                    *)
(*                                                                         *)
(*   Spec       one CognitiveAgent serving process_query requests          *)
(*              (src/agent/ai_agent.py), oracle and tool outcomes drawn    *)
(*              nondeterministically.                                      *)
(*   SpecFair   Spec with weak fairness on the steps of a running request  *)
(*              (every oracle and tool call returns).                      *)
(*   SpecIndex  a sequence of MemoryLayer.add_youtube_chunks calls made    *)
(*              one after the other (src/agent/memory.py).                 *)
(*   SpecIngest the Flask server's index_youtube handlers and the          *)
(*              index_video_async threads they start, interleaved          *)
(*              (src/server.py), sharing one MemoryLayer.                  *)
(*                                                                         *)
(* MAX_ITERATIONS is 50 in the source (src/agent/ai_agent.py:81); the      *)
(* model scales it down so that the budget is reached within a few plan    *)
(* cycles.                                                                 *)
(***************************************************************************)
EXTENDS Integers, Sequences, FiniteSets, TLC

\* ------------------------------------------------------------------ bounds
MAX_ITERATIONS == 4
MaxPlan == 2
MaxBatch == 3
MaxIndex == 4
MaxStartRequests == 2
MaxChunks == 2
MaxStep == 2
MaxResults == 3
MaxFacts == 3
MaxReturned == 2
MaxStored == 2
MaxTopK == 2
MaxNumber == 3
MaxFields == 3
MaxHits == 2
MAX_ROTATED_FILES == 2
MAX_MEMORY_SIZE_MB == 2
MaxSaves == 4
MaxSeconds == 3
MaxSegments == 3

\* ------------------------------------------------------------- value model
\* Python's None, for string-valued fields.
NoneVal == "<None>"

\* Python truthiness of an Optional[str].
Truthy(s) == s # NoneVal /\ s # ""

ClarificationText == "Could you clarify?"

DefaultOutOfScopeMessage == "I apologize, but this query is outside my mathematical capabilities."

TaskCompleted == "Task completed"

\* A value carried by ActionResult.result / final_result.  kind "none" is
\* Python's None; "text" is a string; "computed" is the list of numbers that
\* finalization joins into its answer.
NoResult == [kind |-> "none", text |-> "", vals |-> <<>>]

TextResult(s) == [kind |-> "text", text |-> s, vals |-> <<>>]

ComputedResult(vs) == [kind |-> "computed", text |-> "", vals |-> vs]

\* FallbackPerception (models.py): absent, or is_uncertain plus an
\* Optional[str] suggested_clarification.
NoFallback == [present |-> FALSE, is_uncertain |-> FALSE, suggested_clarification |-> ""]

Fallbacks ==
    {NoFallback} \cup
    { [present |-> TRUE, is_uncertain |-> TRUE, suggested_clarification |-> c] :
        c \in {NoneVal, "", ClarificationText} } \cup
    { [present |-> TRUE, is_uncertain |-> FALSE, suggested_clarification |-> ClarificationText] }

\* PerceptionOutput, reduced to the fields the scheduler reads.
NoPerception ==
    [cached |-> FALSE, intent |-> "", fallback |-> NoFallback, extracted_facts |-> <<>>]

OraclePerceptions ==
    { [cached |-> TRUE, intent |-> i, fallback |-> f,
       extracted_facts |-> << "User wants a calculation" >>] :
        i \in {"calculate", "out_of_scope"}, f \in Fallbacks }

\* PerceptionLayer.perceive's except json.JSONDecodeError branch.
FallbackPerceptionOutput ==
    [cached |-> TRUE, intent |-> "unknown", fallback |-> NoFallback,
     extracted_facts |-> << "User query" >>]

\* How an oracle reply fares in perceive / decide: it parses and validates;
\* json.loads fails; the JSON parses but the pydantic model rejects it; or
\* the oracle call itself raises.
OracleReplyKinds == {"valid", "not_json", "schema_invalid", "oracle_error"}

NoReplies == [perceive |-> "none", decide |-> "none"]

\* Stands for "the layer raised" where a layer's output is expected.
RaisedValue == [raised |-> TRUE]

\* How the rotation of the snapshot file and its writing can go, and the
\* state before save_memory was called.
DiskOutcomes == {"ok", "failed"}

NoCalls == [perceive |-> 0, decide |-> 0, tool_call |-> 0]

NoSave == [called |-> FALSE, rotation |-> "none", write |-> "none"]

\* MemoryFact, reduced to content and source.
Fact(content, source) == [content |-> content, source |-> source]

\* MemoryLayer.store_fact: self.memory_state.facts.append(fact)
StoreFactInFront(facts, content, source) == << Fact(content, source) >> \o facts

StoreFact(facts, content, source) == Append(facts, Fact(content, source))

\* MemoryLayer.store_facts: one store_fact per fact, in order.
RECURSIVE StoreFacts(_, _, _)
StoreFacts(facts, new, source) ==
    IF new = <<>> THEN facts
    ELSE StoreFacts(StoreFact(facts, Head(new), source), Tail(new), source)

ActionTypes == {"tool_call", "response", "query_memory"}

\* ActionStep, reduced to step_number and action_type.
StepsOfLength(n) ==
    { [i \in 1..n |-> [step_number |-> i, action_type |-> t[i]]] : t \in [1..n -> ActionTypes] }

PlanSteps == UNION { StepsOfLength(n) : n \in 0..MaxPlan }

NoDecision == [made |-> FALSE, action_plan |-> <<>>, should_continue |-> TRUE]

OracleDecisions ==
    { [made |-> TRUE, action_plan |-> p, should_continue |-> c] :
        p \in PlanSteps, c \in BOOLEAN }

\* DecisionLayer.decide's except json.JSONDecodeError branch.
FallbackDecisionOutput ==
    [made |-> TRUE,
     action_plan |-> << [step_number |-> 1, action_type |-> "response"] >>,
     should_continue |-> FALSE]

\* What a dispatched tool_call can give back: a JSON object holding a number
\* ('{"result": 5}'), a status sentence, or a failed dispatch (unknown tool,
\* missing tool name, the tool raising).
ToolOutcomes == {"json", "status", "fail"}

ResponseMessage == "Provide direct response to user"

StatusMessage == "Email sent successfully"

JsonNumber(n) == [kind |-> "json", text |-> "", vals |-> <<n>>]

StatusText == [kind |-> "status", text |-> StatusMessage, vals |-> <<>>]

\* A tool result that is plain text, known by the marker words it contains
\* and the first number written in it (vals empty: no digit in it).
PlainText(text, words, vals) == [kind |-> "plain", text |-> text, vals |-> vals, words |-> words]

PlainTexts ==
    {PlainText("File created", {"created"}, <<>>),
     PlainText("Row added", {"added"}, <<>>),
     PlainText("Payment failed", {"failed"}, <<>>),
     PlainText("3 items failed", {"failed"}, << 3 >>),
     PlainText("Total is 42", {}, << 42 >>),
     PlainText("Done", {}, <<>>)}

\* The marker words found in a result's text.
WordsIn(result) ==
    IF result.kind = "status" THEN {"sent", "successfully"}
    ELSE IF result.kind = "plain" THEN result.words
    ELSE {}

\* The word list of _process_action_result and the one of
\* _is_computation_result.
StatusWords == {"sent", "created", "added", "successfully"}

NotComputationWords == {"sent", "created", "added", "successfully", "failed"}

\* A tool result that is a bare numeral, '15': valid JSON, but no object.
BareNumber(n) == [kind |-> "bare", text |-> "", vals |-> <<n>>]

\* ------------------------------------------------------------------- state
VARIABLES
    pc,                   \* position of the running process_query call
    iteration,            \* CognitiveState.iteration
    perception,           \* CognitiveState.perception
    decision,             \* CognitiveState.decision
    action_results,       \* CognitiveState.action_results
    complete,             \* CognitiveState.complete
    cognitive_loop_count, \* process_query's local cognitive_loop_count
    step_idx,             \* position of _run_cognitive_loop's for loop in the plan
    loop_result,          \* _run_cognitive_loop's local final_result
    final_result,         \* process_query's local final_result
    response,             \* the AgentResponse returned to the caller
    steps_planned,        \* history: steps in the plans decided in this request
    steps_executed,       \* history: steps handed to ActionLayer.execute
    raised,               \* history: the exception a layer raised in this request
    oracle_reply,         \* history: how the oracle's latest replies parsed
    stored_facts          \* MemoryLayer.memory_state.facts

agent_vars == << pc, iteration, perception, decision, action_results, complete,
                 cognitive_loop_count, step_idx, loop_result, final_result, response,
                 steps_planned, steps_executed, raised, oracle_reply, stored_facts >>

VARIABLES
    youtube_index,        \* MemoryLayer.youtube_index: None, or the vectors it holds
    youtube_metadata,     \* MemoryLayer.youtube_metadata
    last_add,             \* history: the latest add_youtube_chunks call of SpecIndex
    indexing_status,      \* server.indexing_status
    reqs,                 \* the index_youtube handlers started so far
    jobs                  \* the index_video_async threads started so far

memory_vars == << youtube_index, youtube_metadata >>

server_vars == << indexing_status, reqs, jobs >>

\* The latest call of one of the agent's pure functions: its inputs and
\* what it returned.
VARIABLE call

\* history: the disk faults the save_memory call of this request met
VARIABLE save_outcome

outside_vars == << memory_vars, last_add, server_vars, call >>

\* history: the perceive calls, decide calls and tool_call steps this request
\* has started
VARIABLE calls

non_agent_vars == << outside_vars, save_outcome, calls >>

vars == << agent_vars, non_agent_vars >>

NoResponse == [returned |-> FALSE, success |-> FALSE, result |-> NoResult]

\* ------------------------------------------------------------ action layer
\* ActionLayer.execute: the ActionResult of one dispatched step.  Every
\* exception of the dispatch is turned into a failed result.
Execute(step, outcome) ==
    IF step.action_type = "tool_call"
    THEN IF outcome = "fail"
         THEN [success |-> FALSE, result |-> NoResult, error |-> "tool dispatch failed",
               facts_to_remember |-> << "Action failed: tool dispatch failed" >>]
         ELSE [success |-> TRUE,
               result |-> IF outcome = "status" THEN StatusText ELSE JsonNumber(5),
               error |-> NoneVal,
               facts_to_remember |-> << "Called tool", "Parameters", "Result" >>]
    ELSE IF step.action_type = "response"
    THEN [success |-> TRUE, result |-> TextResult(ResponseMessage), error |-> NoneVal,
          facts_to_remember |-> << "Generated response" >>]
    ELSE IF step.action_type = "query_memory"
    THEN [success |-> FALSE, result |-> NoResult, error |-> "Memory query not yet implemented",
          facts_to_remember |-> <<>>]
    ELSE [success |-> FALSE, result |-> NoResult, error |-> "Unknown action type",
          facts_to_remember |-> << "Action failed: Unknown action type" >>]

\* What _execute_action_step returns to the plan loop: always None ("Don't
\* return response action results - they're just descriptions").
StepReturnsResponsePayload(step, ar) ==
    IF step.action_type = "response" THEN ar.result ELSE NoResult

StepReturn(step, ar) == NoResult

\* ---------------------------------------------------------- finalization
\* _process_action_result / _is_computation_result, for the result at
\* 0-based position i-1: "status", "value" or "skip".
ClassifyResult(i, ar, plan) ==
    IF ~(ar.success /\ ar.result.kind # "none" /\ i <= Len(plan)) THEN "skip"
    ELSE IF plan[i].action_type # "tool_call" THEN "skip"
    ELSE IF WordsIn(ar.result) \cap StatusWords # {} THEN "status"
    ELSE IF WordsIn(ar.result) \cap NotComputationWords # {} THEN "skip"
    ELSE IF ar.result.kind = "json" THEN "value"
    ELSE IF ar.result.kind = "plain" /\ ar.result.vals # <<>> THEN "value"
    ELSE "skip"

RECURSIVE ComputationValues(_, _, _)
ComputationValues(i, results, plan) ==
    IF i > Len(results) THEN <<>>
    ELSE (IF ClassifyResult(i, results[i], plan) = "value" THEN results[i].result.vals ELSE <<>>)
         \o ComputationValues(i + 1, results, plan)

RECURSIVE LastStatus(_, _, _)
LastStatus(i, results, plan) ==
    IF i = 0 THEN NoResult
    ELSE IF ClassifyResult(i, results[i], plan) = "status"
         THEN TextResult(results[i].result.text)
         ELSE LastStatus(i - 1, results, plan)

\* _has_chained_operations
HasChainedOperations(vs) == Len(vs) >= 3

\* _finalize_result
FinalizeResult(dec, results) ==
    IF ~(dec.made /\ Len(dec.action_plan) > 0) THEN NoResult
    ELSE LET vs == ComputationValues(1, results, dec.action_plan)
         IN  IF Len(vs) > 1 /\ HasChainedOperations(vs) THEN ComputedResult(<<vs[Len(vs)]>>)
             ELSE IF Len(vs) > 0 THEN ComputedResult(vs)
             ELSE LastStatus(Len(results), results, dec.action_plan)

\* str(float(n)) for a whole number n: "15.0".
FloatStr(n) == ToString(n) \o ".0"

\* ", ".join(str(v) for v in computation_results)
RECURSIVE JoinValues(_)
JoinValues(vs) ==
    IF vs = <<>> THEN ""
    ELSE IF Len(vs) = 1 THEN FloatStr(vs[1])
    ELSE FloatStr(vs[1]) \o ", " \o JoinValues(Tail(vs))

\* The string _finalize_result returns (None when there is nothing).
ResultString(r) ==
    IF r.kind = "computed" THEN JoinValues(r.vals)
    ELSE IF r.kind = "none" THEN NoneVal
    ELSE r.text

\* --------------------------------------------------------------- responses
SuccessResponse(r) == [returned |-> TRUE, success |-> TRUE, result |-> r]

ErrorResponse(msg) == [returned |-> TRUE, success |-> FALSE, result |-> TextResult(msg)]

\* ---------------------------------------------------------- ingest status
\* Absent entry of indexing_status, and the fields a reader gets from one.
\* A timestamp is abstracted to "t"; progress and total_chunks read as 0 and
\* start_time, end_time and error read as None when the key is missing, which
\* is what every reader's .get() makes of a missing key.
NoStatus ==
    [present |-> FALSE, status |-> "", progress |-> 0, total_chunks |-> 0,
     start_time |-> NoneVal, end_time |-> NoneVal, error |-> NoneVal]

\* The record index_video_async writes first.
StartedRecord ==
    [present |-> TRUE, status |-> "started", progress |-> 0, total_chunks |-> 0,
     start_time |-> "t", end_time |-> NoneVal, error |-> NoneVal]

\* Transcript fetch failed: keeps whatever start_time the entry had.
NoTranscriptRecord(prev_start_time) ==
    [present |-> TRUE, status |-> "failed", progress |-> 0, total_chunks |-> 0,
     start_time |-> prev_start_time, end_time |-> "t", error |-> "no_transcript"]

\* No chunks / no embeddings: status, error and message only.
FailedRecord(err) ==
    [present |-> TRUE, status |-> "failed", progress |-> 0, total_chunks |-> 0,
     start_time |-> NoneVal, end_time |-> NoneVal, error |-> err]

\* The outer except: status, error, message and end_time.
ExceptionRecord(err) ==
    [present |-> TRUE, status |-> "failed", progress |-> 0, total_chunks |-> 0,
     start_time |-> NoneVal, end_time |-> "t", error |-> err]

CompletedRecord(chunks_added) ==
    [present |-> TRUE, status |-> "completed", progress |-> 100,
     total_chunks |-> chunks_added,
     start_time |-> NoneVal, end_time |-> "t", error |-> NoneVal]

\* progress = int((idx / len(chunks)) * 100)
Progress(idx, n) == (idx * 100) \div n

\* ------------------------------------------------------------ vector index
\* self.youtube_dimension (nomic-embed-text).
youtube_dimension == 768

\* The dimensions an embedding array can arrive with.
EmbeddingDims == {youtube_dimension, youtube_dimension + 256}

VideoIds == {"vidA", "vidB"}

\* YouTubeTranscriptChunk, reduced to what identifies it.
Chunk(v, i) == [video_id |-> v, chunk_index |-> i]

\* The embedding computed from chunk i of video v.
Vec(v, i) == [video_id |-> v, chunk_index |-> i]

\* The chunks list / the rows of the embeddings array for chunks 0..n-1 of v.
ChunkList(v, n) == [i \in 1..n |-> Chunk(v, i - 1)]

VecRows(v, n) == [i \in 1..n |-> Vec(v, i - 1)]

\* np.ndarray of shape [Len(rows), dim].
Embeddings(rows, dim) == [rows |-> rows, dim |-> dim]

NoIndex == [created |-> FALSE, vecs |-> <<>>]

\* The two shape tests at the head of add_youtube_chunks: either raises
\* ValueError before anything is touched.
AddRejectsCountOnly(chunks, emb) == Len(emb.rows) # Len(chunks)

AddRejectsDimensionOnly(chunks, emb) == emb.dim # youtube_dimension

AddRejects(chunks, emb) ==
    \/ Len(emb.rows) # Len(chunks)
    \/ emb.dim # youtube_dimension

\* if self.youtube_index is None: create it; self.youtube_index.add(...)
IndexAfterAdd(index, emb) == [created |-> TRUE, vecs |-> index.vecs \o emb.rows]

\* for chunk in chunks: self.youtube_metadata.append({...})
MetadataAfterAdd(metadata, chunks) == metadata \o chunks

NoAdd ==
    [called |-> FALSE, chunks |-> <<>>, emb |-> Embeddings(<<>>, youtube_dimension),
     outcome |-> "", index_before |-> NoIndex, metadata_before |-> <<>>]

\* One whole add_youtube_chunks(chunks, emb) call, nothing running beside it.
AddYoutubeChunks(chunks, emb) ==
    /\ last_add' = [called |-> TRUE, chunks |-> chunks, emb |-> emb,
                    outcome |-> IF AddRejects(chunks, emb) THEN "ValueError" ELSE "added",
                    index_before |-> youtube_index, metadata_before |-> youtube_metadata]
    /\ IF AddRejects(chunks, emb)
       THEN UNCHANGED << youtube_index, youtube_metadata >>
       ELSE /\ youtube_index' = IndexAfterAdd(youtube_index, emb)
            /\ youtube_metadata' = MetadataAfterAdd(youtube_metadata, chunks)

\* ------------------------------------------------- placeholder resolution
NoCall == [op |-> "none"]

\* A parameter scalar or a step result.  A string is known by its form, the
\* number written in it, and ref: the N of the first RESULT_FROM_STEP_N it
\* contains (0: none).
Str(form, num, ref) == [kind |-> "str", form |-> form, num |-> num, ref |-> ref]

Num(n) == [kind |-> "num", form |-> "float", num |-> n, ref |-> 0]

NoValue == [kind |-> "none", form |-> "", num |-> 0, ref |-> 0]

List(items) == [kind |-> "list", items |-> items]

Dict(items) == [kind |-> "dict", items |-> items]

\* "hello", and a string holding the token RESULT_FROM_STEP_k.
Literal == Str("plain", 0, 0)

Token(k) == Str("plain", 0, k)

\* Step results: '{"result": n}', 'n', and '{"text": "RESULT_FROM_STEP_k"}'
\* (a tool echoing text that holds a token).
JsonResultString(n) == Str("json_number", n, 0)

BareNumeral(n) == Str("bare", n, 0)

JsonEcho(k) == Str("json_text", 0, k)

Steps == 1..MaxStep

ParamKeys == {"a", "message"}

\* str.lower() on the words and parameter names used here.
Lower(w) ==
    IF w = "Alpha" THEN "alpha"
    ELSE IF w = "Beta" THEN "beta"
    ELSE IF w = "Body" THEN "body"
    ELSE IF w = "MESSAGE" THEN "message"
    ELSE w

\* ['content', 'text', 'message', 'body', 'description']
NeedsString == {"content", "text", "message", "body", "description"}

\* needs_string = param_name and param_name.lower() in [...]
WantsStringExactCase(param_name) == param_name \in NeedsString

WantsString(param_name) == param_name # NoneVal /\ Lower(param_name) \in NeedsString

ParamScalars == {Literal, Num(3)} \cup {Token(k) : k \in Steps}

ParamValues ==
    ParamScalars \cup {List(<< v >>) : v \in ParamScalars}
                 \cup {Dict([k \in {"a"} |-> v]) : v \in ParamScalars}

ParamTrees == {Dict(f) : f \in [ParamKeys -> ParamValues]}

ResultStrings ==
    {JsonResultString(5), BareNumeral(5), Literal} \cup {JsonEcho(k) : k \in Steps}

\* action_results_map: the steps that succeeded with a result.
ResultsMaps == UNION {[S -> ResultStrings] : S \in SUBSET Steps}

\* _extract_value_from_result on a string: json.loads and the value of a
\* JSON object; a JSON document that is no object, or an object without a
\* number, gives None; text that is no JSON gives the first number in it.
ExtractValueFromResult(result) ==
    IF result.form = "json_number" THEN Num(result.num)
    ELSE IF result.form \in {"json_text", "bare"} THEN NoValue
    ELSE IF result.form = "email" THEN Num(result.num)
    ELSE IF result.ref > 0 THEN Num(result.ref)
    ELSE NoValue

\* What the agent holds when a step's parameters are resolved: the query
\* of the request (context["initial_query"]), the action types of the
\* steps of state.decision.action_plan, and state.action_results.
AgentAt(initial_query, action_plan, results) ==
    [initial_query |-> initial_query, action_plan |-> action_plan,
     action_results |-> results]

\* An ActionResult, as far as the report reads it.
Succeeded(result) == [success |-> TRUE, result |-> result]

FailedResult == [success |-> FALSE, result |-> NoValue]

\* _is_computation_result for the result at 0-based position i-1.  None of
\* the result strings here holds a status word; a JSON document counts
\* when it is an object with a number, other text when it holds a digit.
IsComputationResult(self, i) ==
    LET ar == self.action_results[i]
    IN  /\ ar.success
        /\ ar.result # NoValue
        /\ i <= Len(self.action_plan)
        /\ self.action_plan[i] = "tool_call"
        /\ \/ ar.result.form \in {"json_number", "email"}
           \/ ar.result.form = "plain" /\ ar.result.ref > 0

\* _parse_tool_result: the numbers it appends to the list.
ParseToolResult(result) ==
    IF result.form \in {"json_number", "bare", "email"} THEN << result.num >>
    ELSE IF result.form = "plain" /\ result.ref > 0 THEN << result.ref >>
    ELSE << >>

RECURSIVE ComputationResults(_, _)
ComputationResults(self, i) ==
    IF i > Len(self.action_results) THEN << >>
    ELSE (IF IsComputationResult(self, i)
          THEN ParseToolResult(self.action_results[i].result)
          ELSE << >>)
         \o ComputationResults(self, i + 1)

\* _format_result_as_string of a whole float: "5".
FormatResultAsString(n) == ToString(n)

\* _build_email_result_string: the text, and the first number written in it.
BuildEmailResultString(self, extracted) ==
    LET vs == ComputationResults(self, 1)
    IN  IF Len(vs) > 1 /\ HasChainedOperations(vs)
        THEN [text |-> FormatResultAsString(vs[Len(vs)]), num |-> vs[Len(vs)]]
        ELSE IF Len(vs) > 1 THEN [text |-> JoinValues(vs), num |-> vs[1]]
        ELSE IF Len(vs) = 1 THEN [text |-> FormatResultAsString(vs[1]), num |-> vs[1]]
        ELSE [text |-> FormatResultAsString(extracted.num), num |-> extracted.num]

ReportHeader == "AI Agent Result"

ReportRule == "========================================"

ReportFooter == "Computed by AI Agent"

\* _build_email_content: the lines it joins.  The queries used here hold no
\* digit and no token, so the first number of the text is the result's.
BuildEmailContent(self, result_str) ==
    [kind |-> "str", form |-> "email", num |-> result_str.num, ref |-> 0,
     lines |-> << ReportHeader, ReportRule, "" >>
               \o (IF self.initial_query # ""
                   THEN << "Query: " \o self.initial_query, "" >>
                   ELSE << >>)
               \o << "Result: " \o result_str.text, "", ReportRule, ReportFooter >>]

\* _replace_placeholder
ReplacePlaceholderFailClosed(self, value, param_name, results_map) ==
    IF value.kind # "str" \/ value.ref = 0 THEN value
    ELSE IF value.ref \notin DOMAIN results_map THEN NoValue
    ELSE ExtractValueFromResult(results_map[value.ref])

ReplacePlaceholder(self, value, param_name, results_map) ==
    IF value.kind # "str" THEN value
    ELSE IF value.ref = 0 THEN value
    ELSE IF value.ref \notin DOMAIN results_map THEN value
    ELSE LET result == results_map[value.ref]
             extracted == ExtractValueFromResult(result)
         IN  IF extracted = NoValue THEN result
             ELSE IF WantsString(param_name)
                  THEN BuildEmailContent(self, BuildEmailResultString(self, extracted))
             ELSE extracted

\* replace_recursive of _replace_result_placeholders; list items carry no
\* parameter name.
RECURSIVE ReplaceRecursive(_, _, _, _)
ReplaceRecursive(self, value, param_name, results_map) ==
    IF value.kind = "str" THEN ReplacePlaceholder(self, value, param_name, results_map)
    ELSE IF value.kind = "dict"
    THEN Dict([k \in DOMAIN value.items |->
                 ReplaceRecursive(self, value.items[k], k, results_map)])
    ELSE IF value.kind = "list"
    THEN List([i \in DOMAIN value.items |->
                 ReplaceRecursive(self, value.items[i], NoneVal, results_map)])
    ELSE value

ReplaceResultPlaceholders(self, params, results_map) ==
    ReplaceRecursive(self, params, NoneVal, results_map)

\* ------------------------------------------------------------------- Init
InitState ==
    /\ pc = "idle"
    /\ iteration = 0
    /\ perception = NoPerception
    /\ decision = NoDecision
    /\ action_results = <<>>
    /\ complete = FALSE
    /\ cognitive_loop_count = 0
    /\ step_idx = 0
    /\ loop_result = NoResult
    /\ final_result = NoResult
    /\ response = NoResponse
    /\ steps_planned = 0
    /\ steps_executed = 0
    /\ raised = NoneVal
    /\ oracle_reply = NoReplies
    /\ stored_facts = <<>>
    /\ youtube_index = NoIndex
    /\ youtube_metadata = <<>>
    /\ last_add = NoAdd
    /\ indexing_status = [v \in VideoIds |-> NoStatus]
    /\ reqs = <<>>
    /\ jobs = <<>>
    /\ save_outcome = NoSave
    /\ calls = NoCalls

Init == InitState /\ call = NoCall

\* ------------------------------------------------------------- scheduler
\* process_query, entry: a fresh CognitiveState.
StartRequest ==
    /\ UNCHANGED outside_vars
    /\ save_outcome' = NoSave
    /\ calls' = NoCalls
    /\ pc \in {"idle", "done"}
    /\ Len(stored_facts) <= MaxStored
    /\ pc' = "loop_head"
    /\ iteration' = 0
    /\ perception' = NoPerception
    /\ decision' = NoDecision
    /\ action_results' = <<>>
    /\ complete' = FALSE
    /\ cognitive_loop_count' = 0
    /\ step_idx' = 0
    /\ loop_result' = NoResult
    /\ final_result' = NoResult
    /\ response' = NoResponse
    /\ steps_planned' = 0
    /\ steps_executed' = 0
    /\ raised' = NoneVal
    /\ oracle_reply' = NoReplies
    /\ UNCHANGED stored_facts

\* The while condition of process_query.
BudgetLeft == iteration < MAX_ITERATIONS

\* if self.state.iteration >= MAX_ITERATIONS, as _run_cognitive_loop tests it
\* after perception, after the decision and before every step.
BudgetExhaustedOffByOne(it) == it > MAX_ITERATIONS

BudgetExhausted(it) == it >= MAX_ITERATIONS

\* self.state.iteration += 1 of _execute_decision_layer.
DecideCostNothing == 1 - 1

DecideCost == 1

\* while self.state.iteration < MAX_ITERATIONS: enter another cognitive loop.
LoopEnter ==
    /\ UNCHANGED non_agent_vars
    /\ pc = "loop_head"
    /\ BudgetLeft
    /\ cognitive_loop_count' = cognitive_loop_count + 1
    /\ pc' = "perceive"
    /\ UNCHANGED << iteration, perception, decision, action_results, complete, step_idx,
                    loop_result, final_result, response, steps_planned,
                    steps_executed, raised, oracle_reply, stored_facts >>

\* The while condition fails: fall through to finalization.
LoopExit ==
    /\ UNCHANGED non_agent_vars
    /\ pc = "loop_head"
    /\ ~BudgetLeft
    /\ pc' = "finalize"
    /\ UNCHANGED << iteration, perception, decision, action_results, complete,
                    cognitive_loop_count, step_idx, loop_result, final_result, response,
                    steps_planned, steps_executed, raised, oracle_reply, stored_facts >>

\* _run_cognitive_loop returns (r, stop) to process_query: final_result is
\* assigned, and the loop breaks when stop.
LoopReturn(r, stop) ==
    /\ final_result' = r
    /\ complete' = (complete \/ stop)
    /\ pc' = IF stop THEN "finalize" ELSE "loop_head"

\* A layer raises msg: the except branch of process_query answers.
RaiseEscapes(msg) ==
    /\ raised' = msg
    /\ pc' = "crashed"
    /\ UNCHANGED response

Raise(msg) ==
    /\ raised' = msg
    /\ response' = ErrorResponse(msg)
    /\ pc' = "done"

\* if self.state.perception is not None
PerceptionNeverCached(p) == FALSE

PerceptionCached(p) == p.cached

\* _execute_perception_layer with a cached perception: nothing is called.
PerceiveCached ==
    /\ UNCHANGED non_agent_vars
    /\ pc = "perceive"
    /\ PerceptionCached(perception)
    /\ pc' = "scope_check"
    /\ UNCHANGED << iteration, perception, decision, action_results, complete,
                    cognitive_loop_count, step_idx, loop_result, final_result, response,
                    steps_planned, steps_executed, raised, oracle_reply, stored_facts >>

\* PerceptionLayer.perceive on an oracle reply of the given kind: the parsed
\* perception, the fixed fallback on json.JSONDecodeError, or "raise" for
\* every other exception (re-raised as ValueError).
Perceive(kind, p) ==
    IF kind = "valid" THEN p
    ELSE IF kind = "not_json" THEN FallbackPerceptionOutput
    ELSE RaisedValue

\* _execute_perception_layer, first loop: one unit, the oracle call, and the
\* extracted facts into the Fact Store.
PerceiveCall ==
    /\ UNCHANGED << outside_vars, save_outcome >>
    /\ calls' = [calls EXCEPT !.perceive = @ + 1]
    /\ pc = "perceive"
    /\ ~PerceptionCached(perception)
    /\ iteration' = iteration + 1
    /\ \E kind \in OracleReplyKinds, p \in OraclePerceptions :
          /\ kind # "valid" => p = CHOOSE q \in OraclePerceptions : TRUE
          /\ oracle_reply' = [oracle_reply EXCEPT !.perceive = kind]
          /\ IF Perceive(kind, p) = RaisedValue
             THEN /\ Raise("Error: Perception failed")
                  /\ UNCHANGED << perception, stored_facts >>
             ELSE /\ perception' = Perceive(kind, p)
                  /\ stored_facts' = StoreFacts(stored_facts, Perceive(kind, p).extracted_facts,
                                                "perception")
                  /\ pc' = "scope_check"
                  /\ UNCHANGED << response, raised >>
    /\ UNCHANGED << decision, action_results, complete, cognitive_loop_count, step_idx,
                    loop_result, final_result, steps_planned, steps_executed >>

\* The out-of-scope test of _run_cognitive_loop.
OutOfScope(p) ==
    \/ p.intent = "out_of_scope"
    \/ /\ p.fallback.present
       /\ p.fallback.is_uncertain
       /\ Truthy(p.fallback.suggested_clarification)

\* fallback_message of _run_cognitive_loop.
FallbackMessage(p) ==
    IF p.fallback.present
    THEN IF p.fallback.suggested_clarification = NoneVal
         THEN NoResult
         ELSE TextResult(p.fallback.suggested_clarification)
    ELSE TextResult(DefaultOutOfScopeMessage)

\* _run_cognitive_loop after perception: budget check, then scope check.
ScopeCheck ==
    /\ UNCHANGED non_agent_vars
    /\ pc = "scope_check"
    /\ IF BudgetExhausted(iteration)
       THEN LoopReturn(NoResult, TRUE)
       ELSE IF OutOfScope(perception)
       THEN LoopReturn(FallbackMessage(perception), TRUE)
       ELSE /\ pc' = "decide"
            /\ UNCHANGED << final_result, complete >>
    /\ UNCHANGED << iteration, perception, decision, action_results, cognitive_loop_count,
                    step_idx, loop_result, response, steps_planned,
                    steps_executed, raised, oracle_reply, stored_facts >>

\* DecisionLayer.decide on an oracle reply of the given kind.
DecideOutput(kind, d) ==
    IF kind = "valid" THEN d
    ELSE IF kind = "not_json" THEN FallbackDecisionOutput
    ELSE RaisedValue

\* _execute_decision_layer, then the budget check that follows it.
Decide ==
    /\ UNCHANGED << outside_vars, save_outcome >>
    /\ calls' = [calls EXCEPT !.decide = @ + 1]
    /\ pc = "decide"
    /\ iteration' = iteration + DecideCost
    /\ \E kind \in OracleReplyKinds, d \in OracleDecisions :
          /\ kind # "valid" => d = CHOOSE q \in OracleDecisions : TRUE
          /\ oracle_reply' = [oracle_reply EXCEPT !.decide = kind]
          /\ IF DecideOutput(kind, d) = RaisedValue
             THEN /\ Raise("Error: Decision-making failed")
                  /\ UNCHANGED << decision, steps_planned, step_idx, loop_result,
                                  final_result, complete >>
             ELSE /\ decision' = DecideOutput(kind, d)
                  /\ steps_planned' = steps_planned + Len(DecideOutput(kind, d).action_plan)
                  /\ step_idx' = 1
                  /\ loop_result' = NoResult
                  /\ IF BudgetExhausted(iteration')
                     THEN LoopReturn(NoResult, TRUE)
                     ELSE /\ pc' = "plan_loop"
                          /\ UNCHANGED << final_result, complete >>
                  /\ UNCHANGED << response, raised >>
    /\ UNCHANGED << perception, action_results, cognitive_loop_count, steps_executed,
                    stored_facts >>

\* should_stop after the for loop of _run_cognitive_loop.
ShouldStop(dec, fr) == ~dec.should_continue \/ fr.kind # "none"

\* The for loop has run through the whole plan.
PlanDone ==
    /\ UNCHANGED non_agent_vars
    /\ pc = "plan_loop"
    /\ step_idx > Len(decision.action_plan)
    /\ LoopReturn(loop_result, ShouldStop(decision, loop_result))
    /\ UNCHANGED << iteration, perception, decision, action_results, cognitive_loop_count,
                    step_idx, loop_result, response, steps_planned,
                    steps_executed, raised, oracle_reply, stored_facts >>

\* The for loop finds the budget exhausted before a step.
PlanBudgetExhaustedRaises ==
    /\ UNCHANGED non_agent_vars
    /\ pc = "plan_loop"
    /\ step_idx <= Len(decision.action_plan)
    /\ BudgetExhausted(iteration)
    /\ Raise("Error: budget exhausted")
    /\ UNCHANGED << iteration, perception, decision, action_results, cognitive_loop_count,
                    step_idx, loop_result, final_result, complete, steps_planned,
                    steps_executed, oracle_reply, stored_facts >>

PlanBudgetExhausted ==
    /\ UNCHANGED non_agent_vars
    /\ pc = "plan_loop"
    /\ step_idx <= Len(decision.action_plan)
    /\ BudgetExhausted(iteration)
    /\ LoopReturn(loop_result, TRUE)
    /\ UNCHANGED << iteration, perception, decision, action_results, cognitive_loop_count,
                    step_idx, loop_result, response, steps_planned,
                    steps_executed, raised, oracle_reply, stored_facts >>

\* The for loop admits the next step.
StepAdmitUnlessFailed ==
    /\ UNCHANGED non_agent_vars
    /\ pc = "plan_loop"
    /\ step_idx <= Len(decision.action_plan)
    /\ ~BudgetExhausted(iteration)
    /\ IF step_idx > 1 /\ ~action_results[Len(action_results)].success
       THEN LoopReturn(loop_result, TRUE)
       ELSE /\ pc' = "execute"
            /\ UNCHANGED << final_result, complete >>
    /\ UNCHANGED << iteration, perception, decision, action_results,
                    cognitive_loop_count, step_idx, loop_result, response,
                    steps_planned, steps_executed, raised, oracle_reply, stored_facts >>

StepAdmit ==
    /\ UNCHANGED non_agent_vars
    /\ pc = "plan_loop"
    /\ step_idx <= Len(decision.action_plan)
    /\ ~BudgetExhausted(iteration)
    /\ pc' = "execute"
    /\ UNCHANGED << iteration, perception, decision, action_results, complete,
                    cognitive_loop_count, step_idx, loop_result, final_result, response,
                    steps_planned, steps_executed, raised, oracle_reply, stored_facts >>

\* What _execute_action_step adds to the counter.
StepCostWhateverTheType(step) == 1

StepCost(step) == IF step.action_type = "tool_call" THEN 1 ELSE 0

\* self.state.action_results.append(action_result)
AppendResultIfSuccess(results, ar) == IF ar.success THEN Append(results, ar) ELSE results

AppendResult(results, ar) == Append(results, ar)

\* _execute_action_step and the lines of the for loop after it.
ExecuteStep ==
    /\ UNCHANGED << outside_vars, save_outcome >>
    /\ pc = "execute"
    /\ LET step == decision.action_plan[step_idx]
       IN  \E outcome \in (IF step.action_type = "tool_call" THEN ToolOutcomes ELSE {"json"}) :
             LET ar == Execute(step, outcome)
                 sr == StepReturn(step, ar)
             IN  /\ iteration' = iteration + StepCost(step)
                 /\ calls' = IF step.action_type = "tool_call"
                             THEN [calls EXCEPT !.tool_call = @ + 1]
                             ELSE calls
                 /\ steps_executed' = steps_executed + 1
                 /\ action_results' = AppendResult(action_results, ar)
                 /\ stored_facts' = IF ar.success /\ ar.facts_to_remember # <<>>
                                    THEN StoreFacts(stored_facts, ar.facts_to_remember, "action")
                                    ELSE stored_facts
                 /\ loop_result' = IF sr.kind # "none" THEN sr ELSE loop_result
    /\ step_idx' = step_idx + 1
    /\ pc' = "plan_loop"
    /\ UNCHANGED << perception, decision, complete, cognitive_loop_count, final_result,
                    response, steps_planned, raised, oracle_reply >>

\* MemoryLayer.save_memory: _rotate_memory_file catches what the rotation
\* raises, and the try around rotation, write and index save catches the
\* rest, so nothing reaches the caller.
SaveMemoryRaisesOnWriteFault(rotation, write) == write = "failed"

SaveMemoryRaises(rotation, write) == FALSE

\* process_query after the while loop: finalize, save, respond.
Finalize ==
    /\ UNCHANGED << outside_vars, calls >>
    /\ pc = "finalize"
    /\ LET computed == FinalizeResult(decision, action_results)
           r == IF final_result.kind # "none" THEN final_result
                ELSE IF computed.kind # "none" THEN computed
                ELSE TextResult(TaskCompleted)
       IN  /\ final_result' = r
           /\ \E rotation \in DiskOutcomes, write \in DiskOutcomes :
                 /\ save_outcome' = [called |-> TRUE, rotation |-> rotation, write |-> write]
                 /\ IF SaveMemoryRaises(rotation, write)
                    THEN Raise("Error: snapshot not written")
                    ELSE /\ response' = SuccessResponse(r)
                         /\ pc' = "done"
                         /\ UNCHANGED raised
    /\ UNCHANGED << iteration, perception, decision, action_results, complete,
                    cognitive_loop_count, step_idx, loop_result, steps_planned,
                    steps_executed, oracle_reply, stored_facts >>

RequestStep ==
    \/ LoopEnter
    \/ LoopExit
    \/ PerceiveCached
    \/ PerceiveCall
    \/ ScopeCheck
    \/ Decide
    \/ PlanDone
    \/ PlanBudgetExhausted
    \/ StepAdmit
    \/ ExecuteStep
    \/ Finalize

Next ==
    \/ StartRequest
    \/ RequestStep

Spec == Init /\ [][Next]_vars

\* Every oracle and tool call returns, and the scheduler keeps running.
SpecFair == Spec /\ WF_vars(RequestStep)

\* -------------------------------------------------- sequential add calls
\* A caller hands add_youtube_chunks n chunks of a video and an array of m
\* rows of some dimension.
AddCall ==
    /\ \E v \in VideoIds, n \in 0..MaxBatch, m \in 0..MaxBatch, d \in EmbeddingDims :
          /\ Len(youtube_metadata) + n <= MaxIndex
          /\ Len(youtube_index.vecs) + m <= MaxIndex
          /\ AddYoutubeChunks(ChunkList(v, n), Embeddings(VecRows(v, m), d))
    /\ UNCHANGED << agent_vars, save_outcome, calls, call, server_vars >>

NextIndex == AddCall

SpecIndex == Init /\ [][NextIndex]_vars

\* ------------------------------------------------- POST /api/index_youtube
\* A request thread of index_youtube, and a thread running index_video_async.
Request(v) == [video_id |-> v, pc |-> "check_indexed", reply |-> NoneVal]

Job(v) ==
    [video_id |-> v, pc |-> "spawned", n |-> 0, idx |-> 0, embedded |-> <<>>,
     dim |-> youtube_dimension, saw_none |-> FALSE, snap |-> <<>>, m |-> 0]

IndexedVideos == {youtube_metadata[i].video_id : i \in DOMAIN youtube_metadata}

AlreadyIndexing(v) ==
    /\ indexing_status[v].present
    /\ indexing_status[v].status \in {"started", "in_progress"}

\* youtube_chunks and embeddings_array as the job has collected them.
JobChunks(job) ==
    [i \in 1..Len(job.embedded) |-> Chunk(job.video_id, job.embedded[i])]

JobEmbeddings(job) ==
    Embeddings([i \in 1..Len(job.embedded) |-> Vec(job.video_id, job.embedded[i])],
               job.dim)

\* A request arrives.
IndexYoutubeCall ==
    /\ Len(reqs) < MaxStartRequests
    /\ \E v \in VideoIds : reqs' = Append(reqs, Request(v))
    /\ UNCHANGED << agent_vars, save_outcome, calls, call, memory_vars, last_add, indexing_status, jobs >>

\* "Check if video is already indexed": a scan of youtube_metadata.
IndexYoutubeCheckIndexed(r) ==
    /\ r \in DOMAIN reqs
    /\ reqs[r].pc = "check_indexed"
    /\ reqs' = [reqs EXCEPT ![r] =
                  IF @.video_id \in IndexedVideos
                  THEN [@ EXCEPT !.pc = "returned", !.reply = "already_indexed"]
                  ELSE [@ EXCEPT !.pc = "check_status"]]
    /\ UNCHANGED << agent_vars, save_outcome, calls, call, memory_vars, last_add, indexing_status, jobs >>

\* "Check if already indexing": under indexing_lock, released on leaving.
IndexYoutubeCheckStatus(r) ==
    /\ r \in DOMAIN reqs
    /\ reqs[r].pc = "check_status"
    /\ reqs' = [reqs EXCEPT ![r] =
                  IF AlreadyIndexing(@.video_id)
                  THEN [@ EXCEPT !.pc = "returned",
                                 !.reply = indexing_status[reqs[r].video_id].status]
                  ELSE [@ EXCEPT !.pc = "spawn"]]
    /\ UNCHANGED << agent_vars, save_outcome, calls, call, memory_vars, last_add, indexing_status, jobs >>

\* threading.Thread(target=index_video_async, ...).start(); reply "started".
IndexYoutubeSpawn(r) ==
    /\ r \in DOMAIN reqs
    /\ reqs[r].pc = "spawn"
    /\ jobs' = Append(jobs, Job(reqs[r].video_id))
    /\ reqs' = [reqs EXCEPT ![r] = [@ EXCEPT !.pc = "returned", !.reply = "started"]]
    /\ UNCHANGED << agent_vars, save_outcome, calls, call, memory_vars, last_add, indexing_status >>

\* ------------------------------------------------------ index_video_async
\* The thread's first statement: publish the 'started' record.
JobStart(j) ==
    /\ j \in DOMAIN jobs
    /\ jobs[j].pc = "spawned"
    /\ indexing_status' = [indexing_status EXCEPT ![jobs[j].video_id] = StartedRecord]
    /\ jobs' = [jobs EXCEPT ![j].pc = "fetch"]
    /\ UNCHANGED << agent_vars, save_outcome, calls, call, memory_vars, last_add, reqs >>

\* Steps 1 and 2: fetch the transcript and group it into n chunks.
JobFetch(j) ==
    /\ j \in DOMAIN jobs
    /\ jobs[j].pc = "fetch"
    /\ LET v == jobs[j].video_id IN
       \/ /\ indexing_status' = [indexing_status EXCEPT ![v] =
                                   NoTranscriptRecord(@.start_time)]
          /\ jobs' = [jobs EXCEPT ![j].pc = "finished"]
       \/ /\ indexing_status' = [indexing_status EXCEPT ![v] =
                                   FailedRecord("No transcript chunks generated")]
          /\ jobs' = [jobs EXCEPT ![j].pc = "finished"]
       \/ \E n \in 1..MaxChunks :
             /\ indexing_status' = [indexing_status EXCEPT ![v].total_chunks = n]
             /\ jobs' = [jobs EXCEPT ![j] = [@ EXCEPT !.pc = "embed", !.n = n]]
    /\ UNCHANGED << agent_vars, save_outcome, calls, call, memory_vars, last_add, reqs >>

\* Step 3, one pass of the loop: publish progress, embed the chunk or log
\* the failure and continue.
JobEmbed(j) ==
    /\ j \in DOMAIN jobs
    /\ jobs[j].pc = "embed"
    /\ jobs[j].idx < jobs[j].n
    /\ indexing_status' = [indexing_status EXCEPT ![jobs[j].video_id].progress =
                              Progress(jobs[j].idx, jobs[j].n)]
    /\ \E ok \in BOOLEAN :
          jobs' = [jobs EXCEPT ![j] =
                     [@ EXCEPT !.idx = @ + 1,
                               !.embedded = IF ok THEN Append(@, jobs[j].idx) ELSE @]]
    /\ UNCHANGED << agent_vars, save_outcome, calls, call, memory_vars, last_add, reqs >>

\* After the loop: nothing embedded is a failure; otherwise stack the
\* embeddings, whose width is whatever the embedding service returned.
JobEmbedDone(j) ==
    /\ j \in DOMAIN jobs
    /\ jobs[j].pc = "embed"
    /\ jobs[j].idx = jobs[j].n
    /\ IF jobs[j].embedded = <<>>
       THEN /\ indexing_status' =
                  [indexing_status EXCEPT ![jobs[j].video_id] =
                     FailedRecord("Failed to generate embeddings. Is Ollama running?")]
            /\ jobs' = [jobs EXCEPT ![j].pc = "finished"]
       ELSE /\ \E d \in EmbeddingDims :
                  jobs' = [jobs EXCEPT ![j] = [@ EXCEPT !.pc = "add_check", !.dim = d]]
            /\ UNCHANGED indexing_status
    /\ UNCHANGED << agent_vars, save_outcome, calls, call, memory_vars, last_add, reqs >>

\* add_youtube_chunks, entered without any lock: the two shape tests (a
\* ValueError lands in the thread's outer except) and the read of
\* self.youtube_index for the None test.
JobAddCheck(j) ==
    /\ j \in DOMAIN jobs
    /\ jobs[j].pc = "add_check"
    /\ IF AddRejects(JobChunks(jobs[j]), JobEmbeddings(jobs[j]))
       THEN /\ indexing_status' = [indexing_status EXCEPT ![jobs[j].video_id] =
                                     ExceptionRecord("Embedding dimension mismatch")]
            /\ jobs' = [jobs EXCEPT ![j].pc = "finished"]
       ELSE /\ jobs' = [jobs EXCEPT ![j] =
                          [@ EXCEPT !.pc = IF youtube_index.created
                                           THEN "add_begin" ELSE "add_create",
                                    !.saw_none = ~youtube_index.created]]
            /\ UNCHANGED indexing_status
    /\ UNCHANGED << agent_vars, save_outcome, calls, call, memory_vars, last_add, reqs >>

\* self.youtube_index = faiss.IndexFlatL2(...): a fresh, empty index
\* replaces whatever the attribute holds by now.
JobAddCreate(j) ==
    /\ j \in DOMAIN jobs
    /\ jobs[j].pc = "add_create"
    /\ youtube_index' = [created |-> TRUE, vecs |-> <<>>]
    /\ jobs' = [jobs EXCEPT ![j].pc = "add_begin"]
    /\ UNCHANGED << agent_vars, save_outcome, calls, call, youtube_metadata, last_add, indexing_status, reqs >>

\* self.youtube_index.add(...) runs in native code with the interpreter
\* lock released: it reads the stored vectors ...
JobAddBegin(j) ==
    /\ j \in DOMAIN jobs
    /\ jobs[j].pc = "add_begin"
    /\ jobs' = [jobs EXCEPT ![j] = [@ EXCEPT !.pc = "add_end",
                                             !.snap = youtube_index.vecs]]
    /\ UNCHANGED << agent_vars, save_outcome, calls, call, memory_vars, last_add, indexing_status, reqs >>

\* ... and writes them back extended. If another add ran in between, the
\* unsynchronised write either lands after it or overwrites it.
JobAddEnd(j) ==
    /\ j \in DOMAIN jobs
    /\ jobs[j].pc = "add_end"
    /\ \E base \in {youtube_index.vecs, jobs[j].snap} :
          youtube_index' = IndexAfterAdd([created |-> TRUE, vecs |-> base],
                                         JobEmbeddings(jobs[j]))
    /\ jobs' = [jobs EXCEPT ![j].pc = "meta"]
    /\ UNCHANGED << agent_vars, save_outcome, calls, call, youtube_metadata, last_add, indexing_status, reqs >>

\* One pass of "for chunk in chunks: self.youtube_metadata.append(...)".
JobAppendMetadata(j) ==
    /\ j \in DOMAIN jobs
    /\ jobs[j].pc = "meta"
    /\ jobs[j].m < Len(jobs[j].embedded)
    /\ youtube_metadata' =
          MetadataAfterAdd(youtube_metadata, << JobChunks(jobs[j])[jobs[j].m + 1] >>)
    /\ jobs' = [jobs EXCEPT ![j].m = @ + 1]
    /\ UNCHANGED << agent_vars, save_outcome, calls, call, youtube_index, last_add, indexing_status, reqs >>

\* add_youtube_chunks returns len(chunks); save; publish 'completed'.
JobComplete(j) ==
    /\ j \in DOMAIN jobs
    /\ jobs[j].pc = "meta"
    /\ jobs[j].m = Len(jobs[j].embedded)
    /\ indexing_status' = [indexing_status EXCEPT ![jobs[j].video_id] =
                              CompletedRecord(Len(jobs[j].embedded))]
    /\ jobs' = [jobs EXCEPT ![j].pc = "finished"]
    /\ UNCHANGED << agent_vars, save_outcome, calls, call, memory_vars, last_add, reqs >>

\* Every request starts at most one thread, so both are numbered alike.
ThreadIds == 1..MaxStartRequests

NextIngest ==
    \/ IndexYoutubeCall
    \/ \E r \in ThreadIds :
          \/ IndexYoutubeCheckIndexed(r)
          \/ IndexYoutubeCheckStatus(r)
          \/ IndexYoutubeSpawn(r)
    \/ \E j \in ThreadIds :
          \/ JobStart(j)
          \/ JobFetch(j)
          \/ JobEmbed(j)
          \/ JobEmbedDone(j)
          \/ JobAddCheck(j)
          \/ JobAddCreate(j)
          \/ JobAddBegin(j)
          \/ JobAddEnd(j)
          \/ JobAppendMetadata(j)
          \/ JobComplete(j)

SpecIngest == Init /\ [][NextIngest]_vars

\* ---------------------------------------- resolving a step's parameters
\* The agent after the tool_call steps numbered 1..MaxStep, listed in that
\* order, left the results map behind: a step without an entry failed.
AgentOfMap(results_map) ==
    AgentAt("add the numbers", [i \in Steps |-> "tool_call"],
            [i \in Steps |-> IF i \in DOMAIN results_map
                             THEN Succeeded(results_map[i])
                             ELSE FailedResult])

\* A step with parameters is about to be executed against a results map.
InitPlaceholders ==
    /\ InitState
    /\ \E params \in ParamTrees, results_map \in ResultsMaps :
          call = [op |-> "resolve", done |-> FALSE, agent |-> AgentOfMap(results_map),
                  params |-> params,
                  results_map |-> results_map, resolved |-> params,
                  dispatched |-> FALSE]

\* _execute_action_step from the placeholder resolution to the dispatch:
\* the parameters are resolved against the results map and the step is
\* handed to ActionLayer.execute.
ResolveAndDispatch ==
    /\ call.op = "resolve"
    /\ ~call.done
    /\ call' = [call EXCEPT !.done = TRUE,
                            !.resolved = ReplaceResultPlaceholders(call.agent,
                                                                   call.params,
                                                                   call.results_map),
                            !.dispatched = TRUE]
    /\ UNCHANGED << agent_vars, save_outcome, calls, memory_vars, last_add, server_vars >>

NextPlaceholders == ResolveAndDispatch

SpecPlaceholders == InitPlaceholders /\ [][NextPlaceholders]_vars

\* ------------------------------------- resolving after a run of steps
ReportQueries == {"", "add the numbers"}

ReportKeys == {"a", "message", "Body", "MESSAGE"}

\* What a step left behind: a tool's '{"result": 10 i}', '10 i' or "hello",
\* a tool's failure, or the text of a response step.
RunKinds == {"json", "bare", "text", "fail", "response"}

RunType(kind) == IF kind = "response" THEN "response" ELSE "tool_call"

RunResult(kind, i) ==
    IF kind = "json" THEN Succeeded(JsonResultString(10 * i))
    ELSE IF kind = "bare" THEN Succeeded(BareNumeral(10 * i))
    ELSE IF kind = "fail" THEN FailedResult
    ELSE Succeeded(Literal)

\* action_results_map after the steps 1..Len(kinds) ran in that order.
MapOfRuns(kinds) ==
    [i \in {j \in DOMAIN kinds : kinds[j] # "fail"} |-> RunResult(kinds[i], i).result]

\* The plan's last step carries one parameter whose value is the token
\* RESULT_FROM_STEP_n, directly or as the item of a list.
InitReport ==
    /\ InitState
    /\ \E len \in 0..MaxResults : \E kinds \in [1..len -> RunKinds] :
       \E query \in ReportQueries, key \in ReportKeys, n \in 1..MaxResults,
          in_list \in BOOLEAN :
          LET types == [i \in 1..(len + 1) |->
                          IF i <= len THEN RunType(kinds[i]) ELSE "tool_call"]
              results == [i \in 1..len |-> RunResult(kinds[i], i)]
              params == Dict([k \in {key} |->
                                IF in_list THEN List(<< Token(n) >>) ELSE Token(n)])
          IN  call = [op |-> "resolve", done |-> FALSE,
                      agent |-> AgentAt(query, types, results),
                      params |-> params, results_map |-> MapOfRuns(kinds),
                      resolved |-> params, dispatched |-> FALSE]

SpecReport == InitReport /\ [][NextPlaceholders]_vars

\* ---------------------------------------------- finalizing a run of steps
SampleNumbers == {5, 7, 8, 10, 15}

\* One executed step of the plan with the ActionResult it left behind.
StepRun(action_type, ar) == [action_type |-> action_type, result |-> ar]

ToolSuccess(r) ==
    [success |-> TRUE, result |-> r, error |-> NoneVal,
     facts_to_remember |-> << "Called tool", "Parameters", "Result" >>]

StepRuns ==
    {StepRun("tool_call", ToolSuccess(JsonNumber(n))) : n \in SampleNumbers}
    \cup {StepRun("tool_call", ToolSuccess(BareNumber(n))) : n \in SampleNumbers}
    \cup {StepRun("tool_call", ToolSuccess(t)) : t \in PlainTexts}
    \cup {StepRun("tool_call", ToolSuccess(StatusText)),
          StepRun("tool_call", Execute([step_number |-> 1, action_type |-> "tool_call"], "fail")),
          StepRun("response", Execute([step_number |-> 1, action_type |-> "response"], "json"))}

RunsOfLength(n) == [1..n -> StepRuns]

PlanOf(runs) ==
    [made |-> TRUE,
     action_plan |-> [i \in 1..Len(runs) |->
                        [step_number |-> i, action_type |-> runs[i].action_type]],
     should_continue |-> FALSE]

ResultsOf(runs) == [i \in 1..Len(runs) |-> runs[i].result]

\* A one-cycle request has executed its plan in full.
InitFinalize ==
    /\ InitState
    /\ \E n \in 0..MaxResults : \E runs \in RunsOfLength(n) :
          call = [op |-> "finalize", done |-> FALSE, decision |-> PlanOf(runs),
                  results |-> ResultsOf(runs), out |-> NoneVal]

\* final_result = self._finalize_result()
FinalizeCall ==
    /\ call.op = "finalize"
    /\ ~call.done
    /\ call' = [call EXCEPT !.done = TRUE,
                            !.out = ResultString(FinalizeResult(call.decision,
                                                                call.results))]
    /\ UNCHANGED << agent_vars, save_outcome, calls, memory_vars, last_add, server_vars >>

NextFinalize == FinalizeCall

SpecFinalize == InitFinalize /\ [][NextFinalize]_vars

\* -------------------------------------------------------- fact retrieval
\* A text is the sequence of its whitespace-separated words.  Scores and
\* thresholds in [0, 1] are written in hundredths.
\* set(text.lower().split())
Words(text) == {Lower(text[i]) : i \in DOMAIN text}

FactContents ==
    { << "alpha", "gamma" >>, << "alpha", "beta" >>, << "Beta" >>, << "delta" >> }

Queries ==
    { << "alpha", "beta" >>, << "Alpha" >>, << "gamma", "delta", "beta" >>, << >> }

RelevanceScores == {50, 100}

MinRelevances == {0, 40, 50, 100}

\* MemoryFact, reduced to content and relevance_score.
ScoredFact(content, score) == [content |-> content, relevance_score |-> score]

ScoredFacts == {ScoredFact(c, r) : c \in FactContents, r \in RelevanceScores}

FactStores == UNION {[1..n -> ScoredFacts] : n \in 0..MaxFacts}

\* overlap = len(query_words.intersection(fact_words))
Overlap(fact, query_words) == Cardinality(query_words \cap Words(fact.content))

\* The test a fact must pass: overlap > 0, and overlap / len(query_words)
\* >= min_relevance.
SurvivesAnyOverlap(fact, query_words, min_relevance) ==
    Overlap(fact, query_words) > 0

Survives(fact, query_words, min_relevance) ==
    /\ Overlap(fact, query_words) > 0
    /\ Overlap(fact, query_words) * 100 >= min_relevance * Cardinality(query_words)

\* relevant_facts after the for loop, as positions in the store.
RECURSIVE RelevantFacts(_, _, _, _)
RelevantFacts(i, facts, query_words, min_relevance) ==
    IF i > Len(facts) THEN <<>>
    ELSE (IF Survives(facts[i], query_words, min_relevance) THEN << i >> ELSE <<>>)
         \o RelevantFacts(i + 1, facts, query_words, min_relevance)

\* key=lambda f: f.relevance_score
SortKeyOverlap(fact, query_words) == Overlap(fact, query_words)

SortKey(fact, query_words) == fact.relevance_score

\* list.sort(key=..., reverse=True): descending and stable.
RECURSIVE InsertSorted(_, _, _, _)
InsertSorted(i, sorted, facts, query_words) ==
    IF sorted = <<>> THEN << i >>
    ELSE IF SortKey(facts[Head(sorted)], query_words) >= SortKey(facts[i], query_words)
    THEN << Head(sorted) >> \o InsertSorted(i, Tail(sorted), facts, query_words)
    ELSE << i >> \o sorted

RECURSIVE SortReverse(_, _, _)
SortReverse(idx, facts, query_words) ==
    IF idx = <<>> THEN <<>>
    ELSE InsertSorted(idx[Len(idx)],
                      SortReverse(SubSeq(idx, 1, Len(idx) - 1), facts, query_words),
                      facts, query_words)

\* relevant_facts[:max_results]
Truncate(seq, n) == SubSeq(seq, 1, IF Len(seq) < n THEN Len(seq) ELSE n)

\* A retrieve call is about to run against a store.
InitRetrieve ==
    /\ InitState
    /\ \E facts \in FactStores, query \in Queries, min_relevance \in MinRelevances,
          max_results \in 1..MaxReturned :
          call = [op |-> "retrieve", done |-> FALSE, facts |-> facts, query |-> query,
                  min_relevance |-> min_relevance, max_results |-> max_results,
                  survivors |-> <<>>, returned |-> <<>>]

\* MemoryLayer.retrieve_relevant_facts
RetrieveRelevantFacts ==
    /\ call.op = "retrieve"
    /\ ~call.done
    /\ LET relevant == RelevantFacts(1, call.facts, Words(call.query), call.min_relevance)
           sorted == SortReverse(relevant, call.facts, Words(call.query))
       IN  call' = [call EXCEPT !.done = TRUE,
                                !.survivors = relevant,
                                !.returned = Truncate(sorted, call.max_results)]
    /\ UNCHANGED << agent_vars, save_outcome, calls, memory_vars, last_add, server_vars >>

NextRetrieve == RetrieveRelevantFacts

SpecRetrieve == InitRetrieve /\ [][NextRetrieve]_vars

\* ------------------------------------------------------- plan execution
\* The for loop of _run_cognitive_loop over a plan as the oracle listed it.
StepNumbers == 1..MaxNumber

\* An ActionStep with its step_number and one parameter, which is plain
\* text (ref = 0) or the token RESULT_FROM_STEP_ref.
ListedStep(n, ref) ==
    [step_number |-> n, ref |-> ref,
     parameters |-> Dict([k \in {"a"} |-> IF ref = 0 THEN Literal ELSE Token(ref)])]

\* The plans the oracle can list: distinct step numbers, in any order.
ListedPlans ==
    UNION {{p \in [1..n -> {ListedStep(k, ref) : k \in StepNumbers, ref \in 0..MaxNumber}] :
              \A i, j \in 1..n : i # j => p[i].step_number # p[j].step_number} :
           n \in 1..MaxNumber}

\* What the tool of step n returns.
StepResult(n) == JsonResultString(10 * n)

\* action_results_map = {}
NoResults == [n \in {} |-> Literal]

\* action_results_map[action_step.step_number] = action_result.result
RecordResult(results_map, n, result) ==
    [k \in DOMAIN results_map \cup {n} |-> IF k = n THEN result ELSE results_map[k]]

\* for action_step in decision.action_plan
NextListedStep(plan, executed) == plan[Len(executed) + 1]

InitPlanOrder ==
    /\ InitState
    /\ \E plan \in ListedPlans :
          call = [op |-> "plan", plan |-> plan, executed |-> <<>>,
                  results_map |-> NoResults]

\* One pass of the loop: resolve the step's placeholders against the map
\* of results so far, dispatch, and enter a successful result in the map.
RunListedStep ==
    /\ call.op = "plan"
    /\ Len(call.executed) < Len(call.plan)
    /\ LET step == NextListedStep(call.plan, call.executed)
           agent == AgentAt("add the numbers",
                            [i \in DOMAIN call.plan |-> "tool_call"],
                            [i \in DOMAIN call.executed |->
                               IF call.executed[i].success
                               THEN Succeeded(StepResult(call.executed[i].step_number))
                               ELSE FailedResult])
           params == ReplaceResultPlaceholders(agent, step.parameters, call.results_map)
       IN  \E ok \in BOOLEAN :
              call' = [call EXCEPT
                         !.executed = Append(@, [step_number |-> step.step_number,
                                                 ref |-> step.ref,
                                                 success |-> ok,
                                                 dispatched |-> params]),
                         !.results_map = IF ok
                                         THEN RecordResult(@, step.step_number,
                                                           StepResult(step.step_number))
                                         ELSE @]
    /\ UNCHANGED << agent_vars, save_outcome, calls, memory_vars, last_add, server_vars >>

NextPlanOrder == RunListedStep

SpecPlanOrder == InitPlanOrder /\ [][NextPlanOrder]_vars

\* -------------------------------------------------------- value extraction
\* JSON values as json.loads delivers them.
JNum(n) == [t |-> "num", n |-> n]

JBool(b) == [t |-> "bool", b |-> b]

JStr == [t |-> "str"]

JNull == [t |-> "null"]

JList(items) == [t |-> "list", items |-> items]

JsonValues ==
    {JNum(1), JNum(2), JBool(TRUE), JStr, JNull, JList(<< JNum(3), JNum(4) >>),
     JList(<< JNum(3), JStr >>), JList(<<>>)}

JsonKeys == {"result", "value", "output", "items", "note"}

\* A JSON object: its fields in the order of the text, keys distinct.
Field(key, value) == [key |-> key, value |-> value]

JsonObjects ==
    UNION {{d \in [1..n -> {Field(k, v) : k \in JsonKeys, v \in JsonValues}] :
              \A i, j \in 1..n : i # j => d[i].key # d[j].key} :
           n \in 0..MaxFields}

\* A result string: a JSON object, or text that json.loads rejects, known
\* by the numeric literals written in it.
ObjectText(d) == [form |-> "object", fields |-> d, numbers |-> <<>>]

OtherText(numbers) == [form |-> "text", fields |-> <<>>, numbers |-> numbers]

OtherTexts == {OtherText(<<>>), OtherText(<< 7 >>), OtherText(<< 7, 9 >>)}

\* What the extraction returns: a float, "True"/"False", or None.
Nothing == [t |-> "none"]

Float(n) == [t |-> "float", n |-> n]

BoolText(b) == [t |-> "bool", b |-> b]

\* _format_value
FormatValue(value) ==
    IF value.t = "bool" THEN BoolText(value.b)
    ELSE IF value.t = "num" THEN Float(value.n)
    ELSE Nothing

CommonKeys == << "result", "value", "answer", "solution", "salary", "output" >>

HasKey(d, key) == \E i \in DOMAIN d : d[i].key = key

Get(d, key) == d[CHOOSE i \in DOMAIN d : d[i].key = key].value

\* _extract_from_common_keys: the first common key that is present and not
\* null decides, whatever its value is.
RECURSIVE ExtractFromCommonKeys(_, _)
ExtractFromCommonKeys(d, k) ==
    IF k > Len(CommonKeys) THEN Nothing
    ELSE IF HasKey(d, CommonKeys[k]) /\ Get(d, CommonKeys[k]).t # "null"
    THEN FormatValue(Get(d, CommonKeys[k]))
    ELSE ExtractFromCommonKeys(d, k + 1)

\* isinstance(value, list) and value and isinstance(value[-1], (int, float))
EndsInNumber(value) ==
    /\ value.t = "list"
    /\ value.items # <<>>
    /\ value.items[Len(value.items)].t \in {"num", "bool"}

\* float(value[-1])
LastAsFloat(value) ==
    LET last == value.items[Len(value.items)]
    IN  IF last.t = "bool" THEN Float(IF last.b THEN 1 ELSE 0) ELSE Float(last.n)

\* _extract_from_lists
RECURSIVE ExtractFromLists(_, _)
ExtractFromLists(d, i) ==
    IF i > Len(d) THEN Nothing
    ELSE IF EndsInNumber(d[i].value) THEN LastAsFloat(d[i].value)
    ELSE ExtractFromLists(d, i + 1)

\* _extract_any_numeric
RECURSIVE ExtractAnyNumeric(_, _)
ExtractAnyNumeric(d, i) ==
    IF i > Len(d) THEN Nothing
    ELSE IF FormatValue(d[i].value) # Nothing THEN FormatValue(d[i].value)
    ELSE ExtractAnyNumeric(d, i + 1)

\* _extract_value_from_json on a dict: the three strategies in order.
ExtractValueFromJson(d) ==
    IF ExtractFromCommonKeys(d, 1) # Nothing THEN ExtractFromCommonKeys(d, 1)
    ELSE IF ExtractFromLists(d, 1) # Nothing THEN ExtractFromLists(d, 1)
    ELSE ExtractAnyNumeric(d, 1)

\* _extract_value_from_result on a string.
ExtractValue(result) ==
    IF result.form = "object" THEN ExtractValueFromJson(result.fields)
    ELSE IF result.numbers # <<>> THEN Float(result.numbers[1])
    ELSE Nothing

InitExtract ==
    /\ InitState
    /\ \E result \in {ObjectText(d) : d \in JsonObjects} \cup OtherTexts :
          call = [op |-> "extract", done |-> FALSE, result |-> result, out |-> Nothing]

ExtractCall ==
    /\ call.op = "extract"
    /\ ~call.done
    /\ call' = [call EXCEPT !.done = TRUE, !.out = ExtractValue(call.result)]
    /\ UNCHANGED << agent_vars, save_outcome, calls, memory_vars, last_add, server_vars >>

NextExtract == ExtractCall

SpecExtract == InitExtract /\ [][NextExtract]_vars

\* ------------------------------------------------------------ status query
\* Ingest requests and threads up to the moment of the status query.
IngestBeforeStatusQuery ==
    /\ call = NoCall
    /\ NextIngest

\* get_indexing_status: 404 when the video has no entry, else the entry's
\* fields as .get() reads them (a missing key reads as None, a missing
\* progress or total_chunks as 0).  Every record the thread writes carries a
\* message, which is left out here.
GetIndexingStatus(v) ==
    /\ call = NoCall
    /\ call' = IF ~indexing_status[v].present
               THEN [op |-> "status", done |-> TRUE, video_id |-> v, code |-> 404,
                     success |-> FALSE, body |-> NoStatus]
               ELSE [op |-> "status", done |-> TRUE, video_id |-> v, code |-> 200,
                     success |-> TRUE, body |-> indexing_status[v]]
    /\ UNCHANGED << agent_vars, save_outcome, calls, memory_vars, last_add, server_vars >>

NextStatus ==
    \/ IngestBeforeStatusQuery
    \/ \E v \in VideoIds : GetIndexingStatus(v)

SpecStatus == Init /\ [][NextStatus]_vars

\* ------------------------------------------------------ snapshot rotation
\* The memory file and its rotated copies on a healthy disk.  Sizes are in
\* MB; a file is known by the number of the save that wrote it, which
\* also orders the files' modification times.
StateSizes == 1..(MAX_MEMORY_SIZE_MB + 1)

NoFile == [exists |-> FALSE, size |-> 0, written |-> 0]

\* datetime.now().strftime('%Y%m%d_%H%M%S'): the clock read in whole seconds.
RotatedName(now) == now

\* if file_size_mb < MAX_MEMORY_SIZE_MB: return
NeedsRotation(file) == file.exists /\ file.size >= MAX_MEMORY_SIZE_MB

\* os.rename(self.memory_file, rotated_file): the directory afterwards.
Rename(rotated, file, name) ==
    [n \in DOMAIN rotated \cup {name} |-> IF n = name THEN file ELSE rotated[n]]

\* _cleanup_rotated_files: sorted by mtime, newest first, all beyond the
\* first MAX_ROTATED_FILES removed.
CleanupRotatedFiles(rotated) ==
    LET keep == {n \in DOMAIN rotated :
                   Cardinality({m \in DOMAIN rotated :
                                  rotated[m].written > rotated[n].written})
                     < MAX_ROTATED_FILES}
    IN  [n \in keep |-> rotated[n]]

\* _rotate_memory_file
RotateMemoryFile(rotated, file, now) ==
    IF NeedsRotation(file)
    THEN CleanupRotatedFiles(Rename(rotated, file, RotatedName(now)))
    ELSE rotated

InitRotate ==
    /\ InitState
    /\ call = [op |-> "disk", now |-> 0, saves |-> 0, file |-> NoFile,
               rotated |-> [n \in {} |-> NoFile], rotations |-> << >>]

\* The clock passes to the next second.
Tick ==
    /\ call.op = "disk"
    /\ call.now < MaxSeconds
    /\ call' = [call EXCEPT !.now = @ + 1]
    /\ UNCHANGED << agent_vars, save_outcome, calls, memory_vars, last_add, server_vars >>

\* save_memory with a memory state that dumps to size MB: rotate if
\* needed, then write the fresh file.
SaveMemory ==
    /\ call.op = "disk"
    /\ call.saves < MaxSaves
    /\ \E size \in StateSizes :
          call' = [call EXCEPT
                     !.saves = @ + 1,
                     !.rotated = RotateMemoryFile(@, call.file, call.now),
                     !.rotations = IF NeedsRotation(call.file)
                                   THEN Append(@, call.file.written) ELSE @,
                     !.file = [exists |-> TRUE, size |-> size,
                               written |-> call.saves + 1]]
    /\ UNCHANGED << agent_vars, save_outcome, calls, memory_vars, last_add, server_vars >>

NextRotate == Tick \/ SaveMemory

SpecRotate == InitRotate /\ [][NextRotate]_vars

\* --------------------------------------------------- transcript grouping
\* group_transcript_segments.  A text is the sequence of its characters;
\* times are whole numbers.
SegmentTexts == { << "a" >>, << "b", "." >>, << >> }

Segment(text, start, duration) == [text |-> text, start |-> start, duration |-> duration]

\* Transcripts of n segments: the first starts at 0, each next one 1 or 2
\* after the one before, and each lasts 1 or 2.
RECURSIVE Transcripts(_)
Transcripts(n) ==
    IF n = 0 THEN { << >> }
    ELSE {Append(t, Segment(text, IF t = << >> THEN 0 ELSE t[Len(t)].start + gap, d)) :
            t \in Transcripts(n - 1), text \in SegmentTexts, gap \in 1..2, d \in 1..2}

\* The values of max_duration and of max_chars tried.
DurationLimits == {2, 3}

CharLimits == {3, 5}

\* str.rstrip() and str.strip()
RECURSIVE RStrip(_)
RStrip(text) ==
    IF text # << >> /\ text[Len(text)] = " " THEN RStrip(SubSeq(text, 1, Len(text) - 1))
    ELSE text

RECURSIVE LStrip(_)
LStrip(text) ==
    IF text # << >> /\ text[1] = " " THEN LStrip(Tail(text))
    ELSE text

Strip(text) == LStrip(RStrip(text))

\* current_text.rstrip().endswith(('.', '!', '?'))
EndsWithPunctuation(text) ==
    LET t == RStrip(text) IN t # << >> /\ t[Len(t)] \in {".", "!", "?"}

\* current_text += " " + item['text'] if current_text else item['text']
AddText(current_text, text) ==
    IF current_text # << >> THEN current_text \o << " " >> \o text ELSE text

\* The test that closes the group after item was added.
GroupIsFullByEnd(text, start_time, item, max_duration, max_chars) ==
    \/ EndsWithPunctuation(text)
    \/ item.start + item.duration - start_time >= max_duration
    \/ Len(text) >= max_chars

GroupIsFull(text, start_time, item, max_duration, max_chars) ==
    \/ EndsWithPunctuation(text)
    \/ item.start - start_time >= max_duration
    \/ Len(text) >= max_chars

GroupedChunk(text, start_time, end_time) ==
    [text |-> Strip(text), start_timestamp |-> start_time, end_timestamp |-> end_time]

\* The for loop from item i on, and the "remaining text" chunk after it;
\* start_time -1 is None.
RECURSIVE GroupFrom(_, _, _, _, _, _, _)
GroupFrom(data, i, grouped, start_time, current_text, max_duration, max_chars) ==
    IF i > Len(data)
    THEN (IF current_text # << >>
          THEN Append(grouped,
                      GroupedChunk(current_text, start_time,
                                   data[Len(data)].start + data[Len(data)].duration))
          ELSE grouped)
    ELSE LET item == data[i]
             st == IF start_time = -1 THEN item.start ELSE start_time
             text == AddText(current_text, item.text)
         IN  IF GroupIsFull(text, st, item, max_duration, max_chars)
             THEN GroupFrom(data, i + 1,
                            Append(grouped, GroupedChunk(text, st, item.start + item.duration)),
                            -1, << >>, max_duration, max_chars)
             ELSE GroupFrom(data, i + 1, grouped, st, text, max_duration, max_chars)

GroupTranscriptSegments(transcript_data, max_duration, max_chars) ==
    IF transcript_data = << >> THEN << >>
    ELSE GroupFrom(transcript_data, 1, << >>, -1, << >>, max_duration, max_chars)

InitGroup ==
    /\ InitState
    /\ \E n \in 0..MaxSegments : \E data \in Transcripts(n) :
       \E max_duration \in DurationLimits, max_chars \in CharLimits :
          call = [op |-> "group", done |-> FALSE, transcript_data |-> data,
                  max_duration |-> max_duration, max_chars |-> max_chars,
                  grouped |-> << >>]

\* chunks = group_transcript_segments(transcript_data, ...)
GroupCall ==
    /\ call.op = "group"
    /\ ~call.done
    /\ call' = [call EXCEPT !.done = TRUE,
                            !.grouped = GroupTranscriptSegments(call.transcript_data,
                                                                call.max_duration,
                                                                call.max_chars)]
    /\ UNCHANGED << agent_vars, save_outcome, calls, memory_vars, last_add, server_vars >>

NextGroup == GroupCall

SpecGroup == InitGroup /\ [][NextGroup]_vars

\* ------------------------------------------------------ context expansion
\* Start offsets are written in half seconds; abs(...) < 1.0 is then a
\* difference below ExpandTolerance.
ExpandTolerance == 2

SyntheticScore == 50

\* The start offsets the chunks of a video can have: 0.0 s, 0.5 s, 2.0 s, 3.0 s.
StartOffsets == {0, 1, 4, 6}

\* A youtube_metadata entry, and a YouTubeContext (scores in hundredths).
Metadata(v, t) == [video_id |-> v, start_timestamp |-> t]

YouTubeContext(v, t, score) == [video_id |-> v, timestamp |-> t, relevance_score |-> score]

\* The set S of numbers as the ascending sequence.
RECURSIVE Ascending(_)
Ascending(S) ==
    IF S = {} THEN << >>
    ELSE LET m == CHOOSE x \in S : \A y \in S : x <= y
         IN  << m >> \o Ascending(S \ {m})

\* youtube_metadata after the chunks of vidA and then those of vidB were
\* added, each video's chunks in transcript order.
MetadataLists ==
    {[i \in 1..Cardinality(A) |-> Metadata("vidA", Ascending(A)[i])]
       \o [i \in 1..Cardinality(B) |-> Metadata("vidB", Ascending(B)[i])] :
     A \in SUBSET StartOffsets, B \in SUBSET {0, 4}}

\* The similarity score of the hit at position i of the search's answer.
HitScore(i) == 100 - 10 * i

\* The hits of a search: distinct entries of the metadata, in any order.
HitLists(metadata) ==
    UNION {{[i \in 1..n |-> YouTubeContext(metadata[h[i]].video_id,
                                           metadata[h[i]].start_timestamp,
                                           HitScore(i))] :
              h \in {g \in [1..n -> DOMAIN metadata] :
                       \A a, b \in 1..n : a # b => g[a] # g[b]}} :
           n \in 0..MaxHits}

\* list.sort(key=lambda x: x[field]): stable, ascending.
RECURSIVE InsertByField(_, _, _)
InsertByField(x, sorted, field) ==
    IF sorted = << >> THEN << x >>
    ELSE IF x[field] < sorted[1][field] THEN << x >> \o sorted
    ELSE << sorted[1] >> \o InsertByField(x, Tail(sorted), field)

RECURSIVE SortByField(_, _)
SortByField(seq, field) ==
    IF seq = << >> THEN << >>
    ELSE InsertByField(seq[Len(seq)], SortByField(SubSeq(seq, 1, Len(seq) - 1), field),
                       field)

\* f"{video_id}_{timestamp}"
ChunkKey(v, t) == << v, t >>

\* The metadata of one video, sorted by start_timestamp.
RECURSIVE SelectVideo(_, _)
SelectVideo(metadata, v) ==
    IF metadata = << >> THEN << >>
    ELSE (IF metadata[1].video_id = v THEN << metadata[1] >> ELSE << >>)
         \o SelectVideo(Tail(metadata), v)

VideoChunks(metadata, v) == SortByField(SelectVideo(metadata, v), "start_timestamp")

Abs(n) == IF n < 0 THEN -n ELSE n

\* current_idx: the first chunk within the tolerance of the hit's
\* timestamp (1-based; 0 is None).
CurrentIdx(video_chunks, timestamp) ==
    LET S == {i \in DOMAIN video_chunks :
                Abs(video_chunks[i].start_timestamp - timestamp) < ExpandTolerance}
    IN  IF S = {} THEN 0 ELSE CHOOSE i \in S : \A j \in S : i <= j

\* expanded_contexts and processed_chunks after a chunk was offered.
AddIfNewAlways(acc, ctx) ==
    [expanded |-> Append(acc.expanded, ctx),
     processed |-> acc.processed \cup {ChunkKey(ctx.video_id, ctx.timestamp)}]

AddIfNew(acc, ctx) ==
    IF ChunkKey(ctx.video_id, ctx.timestamp) \in acc.processed THEN acc
    ELSE [expanded |-> Append(acc.expanded, ctx),
          processed |-> acc.processed \cup {ChunkKey(ctx.video_id, ctx.timestamp)}]

\* The context built from a neighbouring chunk.
SurroundingContext(chunk) ==
    YouTubeContext(chunk.video_id, chunk.start_timestamp, SyntheticScore)

\* One pass of the loop over top_contexts.
ExpandOne(acc, ctx, metadata) ==
    LET video_chunks == VideoChunks(metadata, ctx.video_id)
        current_idx == CurrentIdx(video_chunks, ctx.timestamp)
        with_hit == AddIfNew(acc, ctx)
        with_prev == IF current_idx > 1
                     THEN AddIfNew(with_hit, SurroundingContext(video_chunks[current_idx - 1]))
                     ELSE with_hit
    IN  IF current_idx = 0 THEN with_hit
        ELSE IF current_idx < Len(video_chunks)
        THEN AddIfNew(with_prev, SurroundingContext(video_chunks[current_idx + 1]))
        ELSE with_prev

RECURSIVE ExpandFrom(_, _, _)
ExpandFrom(acc, top_contexts, metadata) ==
    IF top_contexts = << >> THEN acc
    ELSE ExpandFrom(ExpandOne(acc, top_contexts[1], metadata), Tail(top_contexts), metadata)

\* expand_context_with_surrounding_chunks
ExpandContextWithSurroundingChunks(top_contexts, metadata) ==
    SortByField(ExpandFrom([expanded |-> << >>, processed |-> {}], top_contexts,
                           metadata).expanded,
                "timestamp")

InitExpand ==
    /\ InitState
    /\ \E metadata \in MetadataLists : \E top_contexts \in HitLists(metadata) :
          call = [op |-> "expand", done |-> FALSE, metadata |-> metadata,
                  top_contexts |-> top_contexts, expanded |-> << >>]

\* expanded = expand_context_with_surrounding_chunks(top_contexts, memory)
ExpandCall ==
    /\ call.op = "expand"
    /\ ~call.done
    /\ call' = [call EXCEPT !.done = TRUE,
                            !.expanded = ExpandContextWithSurroundingChunks(
                                             call.top_contexts, call.metadata)]
    /\ UNCHANGED << agent_vars, save_outcome, calls, memory_vars, last_add, server_vars >>

NextExpand == ExpandCall

SpecExpand == InitExpand /\ [][NextExpand]_vars

\* ----------------------------------------------------------- vector search
\* The numbers of an embedding, reduced to a point with two small integer
\* coordinates.  Chunk 0 of both videos carries the same text and so the same
\* embedding.
Point(x, y) == [x |-> x, y |-> y]

Coords(vec) ==
    IF vec.chunk_index = 0 THEN Point(0, 0)
    ELSE IF vec.video_id = "vidA"
    THEN (IF vec.chunk_index = 1 THEN Point(1, 0) ELSE Point(3, 0))
    ELSE (IF vec.chunk_index = 1 THEN Point(0, 1) ELSE Point(2, 2))

QueryPoints ==
    {Coords(Vec(v, i)) : v \in VideoIds, i \in 0..(MaxBatch - 1)} \cup {Point(1, 1)}

VideoFilters == {NoneVal} \cup VideoIds

\* IndexFlatL2: the squared Euclidean distance.
Distance(p, q) == (p.x - q.x) * (p.x - q.x) + (p.y - q.y) * (p.y - q.y)

\* similarity_score = 1.0 / (1.0 + float(dist)), as the fraction num / den.
SimilarityOfNextDistance(dist) == [num |-> 1, den |-> 2 + dist]

Similarity(dist) == [num |-> 1, den |-> 1 + dist]

\* search_k = top_k * 3 if video_id_filter else top_k, capped by ntotal.
SearchK(top_k, video_id_filter, ntotal) ==
    LET search_k == IF video_id_filter # NoneVal THEN top_k * 3 ELSE top_k
    IN  IF search_k < ntotal THEN search_k ELSE ntotal

\* What youtube_index.search may return for k: k positions of the index,
\* nearest first, no stored vector nearer than the last of them.  The order
\* of vectors at equal distance is the library's choice.
Nearest(vecs, query, k) ==
    {c \in [1..k -> DOMAIN vecs] :
       /\ \A a, b \in 1..k : a < b => c[a] # c[b]
       /\ \A a, b \in 1..k :
             a < b => Distance(Coords(vecs[c[a]]), query) <= Distance(Coords(vecs[c[b]]), query)
       /\ \A i \in DOMAIN vecs :
             (\A a \in 1..k : c[a] # i) =>
                \A a \in 1..k :
                   Distance(Coords(vecs[c[a]]), query) <= Distance(Coords(vecs[i]), query)}

\* YouTubeContext, with the position of the record it was built from.
Context(idx, metadata, dist) ==
    [idx |-> idx, video_id |-> metadata[idx].video_id,
     chunk_index |-> metadata[idx].chunk_index, dist |-> dist,
     relevance_score |-> Similarity(dist)]

\* if len(contexts) >= top_k: break
EnoughContextsNever(contexts, top_k) == FALSE

EnoughContexts(contexts, top_k) == Len(contexts) >= top_k

\* The for loop over zip(distances[0], indices[0]), from candidate a on.
RECURSIVE CollectContexts(_, _, _, _, _, _, _)
CollectContexts(a, cand, vecs, metadata, query, top_k, video_id_filter) ==
    IF a > Len(cand) THEN <<>>
    ELSE LET idx == cand[a]
             rest == CollectContexts(a + 1, cand, vecs, metadata, query, top_k,
                                     video_id_filter)
         IN  IF idx > Len(metadata) THEN rest
             ELSE IF video_id_filter # NoneVal /\ metadata[idx].video_id # video_id_filter
             THEN rest
             ELSE LET context == Context(idx, metadata, Distance(Coords(vecs[idx]), query))
                  IN  << context >> \o rest

\* The contexts the loop has when it stops: it leaves at the first moment
\* it holds enough of them.
RECURSIVE StopWhenEnough(_, _, _)
StopWhenEnough(a, contexts, top_k) ==
    IF a > Len(contexts) THEN contexts
    ELSE IF EnoughContexts(SubSeq(contexts, 1, a), top_k) THEN SubSeq(contexts, 1, a)
    ELSE StopWhenEnough(a + 1, contexts, top_k)

\* The results search_youtube_content can return.
SearchResults(index, metadata, query, top_k, video_id_filter) ==
    IF ~index.created \/ Len(index.vecs) = 0 THEN {<<>>}
    ELSE {StopWhenEnough(1, CollectContexts(1, cand, index.vecs, metadata, query, top_k,
                                            video_id_filter), top_k) :
            cand \in Nearest(index.vecs, query,
                             SearchK(top_k, video_id_filter, Len(index.vecs)))}

\* add_youtube_chunks calls that build up the index to be searched.
AddBeforeSearch ==
    /\ call = NoCall
    /\ AddCall

\* One search_youtube_content(query, top_k, video_id_filter) call.
SearchYoutubeContent ==
    /\ call = NoCall
    /\ \E query \in QueryPoints, top_k \in 1..MaxTopK, video_id_filter \in VideoFilters :
          \E contexts \in SearchResults(youtube_index, youtube_metadata, query, top_k,
                                        video_id_filter) :
             call' = [op |-> "search", done |-> TRUE, query |-> query, top_k |-> top_k,
                      video_id_filter |-> video_id_filter, contexts |-> contexts,
                      raised |-> FALSE]
    /\ UNCHANGED << agent_vars, save_outcome, calls, memory_vars, last_add, server_vars >>

NextSearch == AddBeforeSearch \/ SearchYoutubeContent

SpecSearch == Init /\ [][NextSearch]_vars

\* ================================================================ claims
\* A perceive call, a decide call or a tool_call step is about to start.
OracleOrToolCallPending ==
    \/ pc = "perceive" /\ ~perception.cached
    \/ pc = "decide"
    \/ pc = "execute" /\ decision.action_plan[step_idx].action_type = "tool_call"

\* C1: within a request the iteration counter never exceeds MAX_ITERATIONS,
\* and no perceive call, decide call or tool_call step is started in a state
\* where the counter already equals MAX_ITERATIONS.
C1_BudgetNeverExceeded ==
    /\ iteration <= MAX_ITERATIONS
    /\ OracleOrToolCallPending => iteration < MAX_ITERATIONS

\* The budget is used up with a tool_call step of the plan still to run.
C1_Witness ==
    /\ pc = "plan_loop"
    /\ iteration = MAX_ITERATIONS
    /\ step_idx <= Len(decision.action_plan)
    /\ decision.action_plan[step_idx].action_type = "tool_call"

\* C2: every request reaches its final response whatever the oracle returns,
\* provided each oracle and tool call returns; every completed plan cycle has
\* consumed at least one unit, so at most MAX_ITERATIONS cycles run.
C2_RequestTerminates ==
    /\ [](cognitive_loop_count <= MAX_ITERATIONS)
    /\ []((pc = "loop_head" /\ cognitive_loop_count > 0) => iteration > cognitive_loop_count)
    /\ (pc = "loop_head") ~> (pc = "done")

\* A request ends by running out of budget after plans that all asked to
\* continue and held no tool_call step.
C2_Witness ==
    /\ pc = "done"
    /\ iteration = MAX_ITERATIONS
    /\ cognitive_loop_count = MAX_ITERATIONS - 1
    /\ decision.should_continue
    /\ \A i \in 1..Len(action_results) : action_results[i].result.kind # "json"
    /\ raised = NoneVal

\* C7: the number of ActionResults equals the number of steps executed so
\* far, failed steps included, and never exceeds the number of steps planned
\* so far.
C7_OneResultPerExecutedStep ==
    /\ Len(action_results) = steps_executed
    /\ steps_executed <= steps_planned

\* A failed step has left its result, and a planned step was never run.
C7_Witness ==
    /\ pc = "done"
    /\ \E i \in 1..Len(action_results) : ~action_results[i].success
    /\ Len(action_results) < steps_planned

\* C8: process_query always returns a response with a success flag and a
\* result string: success with a result on normal completion, failure with
\* the error text when a layer raised; no exception escapes.
C8_AlwaysAResponse ==
    /\ pc # "crashed"
    /\ pc = "done" =>
          /\ response.returned
          /\ response.result.kind \in {"text", "computed"}
          /\ IF raised = NoneVal
             THEN response.success
             ELSE ~response.success /\ response.result = TextResult(raised)

\* The decision layer raised after a perception was cached.
C8_Witness ==
    /\ pc = "done"
    /\ perception.cached
    /\ raised # NoneVal
    /\ response = ErrorResponse(raised)

\* The for loop has run through the whole current plan.
PlanExecuted == pc = "plan_loop" /\ step_idx > Len(decision.action_plan)

\* A response-type step of the current, fully executed plan left a payload.
ResponsePayloadProduced ==
    \E i \in 1..Len(decision.action_plan) :
        /\ decision.action_plan[i].action_type = "response"
        /\ action_results[Len(action_results) - Len(decision.action_plan) + i].result.kind # "none"

\* C9 as stated: after a full plan the request ends exactly when the plan
\* has should_continue=false or a response-type step produced a payload.
C9_EndsOnResponsePayload ==
    [][PlanExecuted =>
         (pc' = "finalize" <=> (~decision.should_continue \/ ResponsePayloadProduced))]_vars

\* C9 amended: after a full plan the request ends exactly when the plan has
\* should_continue=false, whether or not a response-type step produced a
\* payload; otherwise the scheduler goes back to the loop head, from where it
\* reuses the cached perception and starts another DECIDE cycle when budget
\* is left, and ends the request when it is not.
C9_EndsOnShouldContinueOnly ==
    /\ [][PlanExecuted => (pc' = "finalize" <=> ~decision.should_continue)]_vars
    /\ [][(pc = "loop_head" /\ cognitive_loop_count > 0) =>
            (pc' = IF iteration < MAX_ITERATIONS THEN "perceive" ELSE "finalize")]_vars
    /\ [][(pc = "perceive" /\ cognitive_loop_count > 1) =>
            (pc' = "scope_check" /\ UNCHANGED << iteration, perception >>)]_vars
    /\ [][(pc = "scope_check" /\ cognitive_loop_count > 1) => pc' = "decide"]_vars

\* A second DECIDE cycle is about to start although a response-type step of
\* the first plan produced its payload.
C9_Witness ==
    /\ pc = "decide"
    /\ cognitive_loop_count = 2
    /\ \E i \in 1..Len(action_results) : action_results[i].result = TextResult(ResponseMessage)

\* What C10 calls the perception's out-of-scope report.
ReportsOutOfScope(p) ==
    \/ p.intent = "out_of_scope"
    \/ /\ p.fallback.present
       /\ p.fallback.is_uncertain
       /\ p.fallback.suggested_clarification \notin {NoneVal, ""}

\* The text C10 expects as the result: the perception's suggested
\* clarification, or the fixed out-of-scope message when the perception
\* carries no fallback at all.
ClarificationOf(p) ==
    IF p.fallback.present
    THEN TextResult(p.fallback.suggested_clarification)
    ELSE TextResult(DefaultOutOfScopeMessage)

\* C10: when perception reports out_of_scope, or uncertainty together with a
\* suggested clarification, the request ends at once with the clarification
\* text as its result: no decide call, no step, counter still 1.
C10_OutOfScopeEndsWithClarification ==
    (pc = "done" /\ perception.cached /\ ReportsOutOfScope(perception)) =>
        /\ response.success
        /\ response.result = ClarificationOf(perception)
        /\ ~decision.made
        /\ action_results = <<>>
        /\ iteration = 1

\* C4: after any sequence of add calls, accepted or rejected, the number of
\* embeddings in the index equals the number of metadata records.
C4_IndexSizeEqualsMetadataLength ==
    Len(youtube_index.vecs) = Len(youtube_metadata)

\* A rejected add has followed accepted ones.
C4_Witness ==
    /\ last_add.called
    /\ last_add.outcome = "ValueError"
    /\ Len(youtube_metadata) >= 2

\* The shapes C5 speaks of: counts differ, or the dimension is not D.
ShapeMismatch(chunks, emb) ==
    \/ Len(emb.rows) < Len(chunks)
    \/ Len(emb.rows) > Len(chunks)
    \/ emb.dim < youtube_dimension
    \/ emb.dim > youtube_dimension

\* C5: an add whose embedding count differs from its record count, or whose
\* embeddings do not have dimension D, fails with an error and changes
\* neither the index nor the metadata list.
C5_MismatchedAddRejectedUnchanged ==
    (last_add.called /\ ShapeMismatch(last_add.chunks, last_add.emb)) =>
        /\ last_add.outcome = "ValueError"
        /\ youtube_index = last_add.index_before
        /\ youtube_metadata = last_add.metadata_before

\* 3 records with 2 embeddings, offered to an index that already holds some.
C5_Witness ==
    /\ last_add.called
    /\ Len(last_add.chunks) = 3
    /\ Len(last_add.emb.rows) = 2
    /\ last_add.emb.dim = youtube_dimension
    /\ last_add.outcome = "ValueError"
    /\ Len(youtube_metadata) > 0

\* A job is active from the moment its thread is started until it returns.
ActiveJob(j) == jobs[j].pc # "finished"

\* C3: for any interleaving of start requests and job threads, no two active
\* ingest jobs share a job identity.
C3_AtMostOneActiveJobPerIdentity ==
    \A i, j \in DOMAIN jobs :
       (i # j /\ ActiveJob(i) /\ ActiveJob(j)) => jobs[i].video_id # jobs[j].video_id

AllJobsFinished == \A j \in DOMAIN jobs : jobs[j].pc = "finished"

DistinctIdentities ==
    \A i, j \in DOMAIN jobs : i # j => jobs[i].video_id # jobs[j].video_id

MetadataDescribesEmbedding(i) ==
    youtube_metadata[i] = Chunk(youtube_index.vecs[i].video_id,
                                youtube_index.vecs[i].chunk_index)

\* C6: once two ingest jobs (of different identities) that added records
\* concurrently have both finished, the index size equals the metadata
\* length and the metadata record at every position describes the embedding
\* at that position.
C6_ConcurrentAddsSerialized ==
    (Len(jobs) = 2 /\ AllJobsFinished /\ DistinctIdentities) =>
        /\ Len(youtube_index.vecs) = Len(youtube_metadata)
        /\ \A i \in DOMAIN youtube_metadata : MetadataDescribesEmbedding(i)

\* The oracle's reply failed to parse or to validate, and the oracle call
\* itself did not fail.
ParseFailures == {"not_json", "schema_invalid"}

OracleParseError ==
    /\ oracle_reply.perceive \in ParseFailures \/ oracle_reply.decide \in ParseFailures
    /\ oracle_reply.perceive # "oracle_error"
    /\ oracle_reply.decide # "oracle_error"

\* C11: an oracle reply that is not valid JSON or fails schema validation
\* makes the layer return its fixed fallback value, nothing is raised, and
\* the request completes with success = true.
C11_OracleParseErrorRecovered ==
    /\ oracle_reply.perceive \in ParseFailures =>
          (perception = FallbackPerceptionOutput /\ raised = NoneVal)
    /\ oracle_reply.decide \in ParseFailures =>
          (decision = FallbackDecisionOutput /\ raised = NoneVal)
    /\ (pc = "done" /\ OracleParseError) => (response.returned /\ response.success)

\* The step that ExecuteStep has just dispatched, and its result.
JustExecuted == pc = "execute" /\ Len(action_results') = Len(action_results) + 1

NewResult == action_results'[Len(action_results')]

\* C12: a tool_call step whose dispatch fails yields a failed ActionResult
\* with an error string and raises nothing, and whenever steps remain and
\* the budget is not exhausted the scheduler executes the next step.
C12_FailedDispatchContinues ==
    /\ [][(JustExecuted /\ decision.action_plan[step_idx].action_type = "tool_call"
             /\ ~NewResult.success)
          => /\ NewResult.error # NoneVal
             /\ NewResult.result = NoResult
             /\ raised' = NoneVal
             /\ pc' = "plan_loop"
             /\ step_idx' = step_idx + 1]_vars
    /\ [][(pc = "plan_loop" /\ step_idx <= Len(decision.action_plan)
             /\ ~BudgetExhausted(iteration))
          => pc' = "execute"]_vars

\* In the first plan, a step was executed after a tool_call whose dispatch
\* had failed.
C12_Witness ==
    /\ cognitive_loop_count = 1
    /\ Len(action_results) = 2
    /\ decision.action_plan[1].action_type = "tool_call"
    /\ action_results[1].error = "tool dispatch failed"
    /\ raised = NoneVal

\* C13: after a step's dispatch has failed, the Fact Store holds a fact that
\* records the failure.
C13_FailureFactStored ==
    \A i \in DOMAIN action_results :
       (~action_results[i].success /\ action_results[i].facts_to_remember # <<>>) =>
          \E k \in DOMAIN stored_facts :
             stored_facts[k].content = action_results[i].facts_to_remember[1]

\* The request is over and its last plan was cut by the budget.
BudgetCutPlan ==
    /\ decision.made
    /\ step_idx <= Len(decision.action_plan)
    /\ BudgetExhausted(iteration)
    /\ raised = NoneVal

PartialResult ==
    IF FinalizeResult(decision, action_results).kind # "none"
    THEN FinalizeResult(decision, action_results)
    ELSE TextResult(TaskCompleted)

\* C14: when the budget runs out in the middle of a plan, no remaining step
\* is executed and the request ends with a success response built from the
\* results of the executed steps, or the default text when none is usable.
C14_BudgetCutStillResponds ==
    /\ []((pc = "done" /\ BudgetCutPlan) =>
            /\ response = SuccessResponse(PartialResult)
            /\ Len(action_results) = steps_executed)
    /\ [][(pc = "plan_loop" /\ step_idx <= Len(decision.action_plan)
             /\ BudgetExhausted(iteration))
          => (pc' = "finalize" /\ UNCHANGED << action_results, steps_executed >>)]_vars
    /\ [][pc = "finalize"
          => (pc' = "done" /\ UNCHANGED << action_results, steps_executed >>)]_vars

\* A two-step plan cut after its first step, whose result makes the answer.
C14_Witness ==
    /\ pc = "done"
    /\ BudgetCutPlan
    /\ step_idx = 2
    /\ Len(decision.action_plan) = 2
    /\ response.success
    /\ response.result.kind = "computed"

\* C15: resolving placeholders a second time with the same results map
\* gives the same tree as resolving once.
C15_ResolveIdempotent ==
    (call.op = "resolve" /\ call.done) =>
        ReplaceResultPlaceholders(call.agent, call.resolved, call.results_map)
            = call.resolved

\* Position by position: a string whose token names a step that has no
\* entry in the map is the same string after resolution.
RECURSIVE UnresolvedKept(_, _, _)
UnresolvedKept(before, after, results_map) ==
    IF before.kind = "str"
    THEN (before.ref > 0 /\ before.ref \notin DOMAIN results_map) => after = before
    ELSE IF before.kind \in {"dict", "list"}
    THEN /\ after.kind = before.kind
         /\ DOMAIN after.items = DOMAIN before.items
         /\ \A k \in DOMAIN before.items :
               UnresolvedKept(before.items[k], after.items[k], results_map)
    ELSE TRUE

RECURSIVE NumbersProduced(_, _, _)
NumbersProduced(i, results, plan) ==
    IF i > Len(results) THEN <<>>
    ELSE (IF /\ plan[i].action_type = "tool_call"
             /\ results[i].success
             /\ results[i].result.kind \in {"json", "bare"}
          THEN results[i].result.vals ELSE <<>>)
         \o NumbersProduced(i + 1, results, plan)

CallNumbers == NumbersProduced(1, call.results, call.decision.action_plan)

CallStatus == LastStatus(Len(call.results), call.results, call.decision.action_plan)

\* C17: finalization surfaces computation values by their count: three or
\* more give only the last; exactly two give both, joined by ", " (7 and 8
\* give "7, 8"); exactly one gives that one; none gives the last status
\* message.
C17_SurfacedByCount ==
    (call.op = "finalize" /\ call.done) =>
        LET vs == CallNumbers
        IN  call.out =
              (IF Len(vs) >= 3 THEN ToString(vs[Len(vs)])
               ELSE IF Len(vs) = 2 THEN ToString(vs[1]) \o ", " \o ToString(vs[2])
               ELSE IF Len(vs) = 1 THEN ToString(vs[1])
               ELSE ResultString(CallStatus))

\* C18: three tool_call steps giving 5, then 10, then 15 make finalization
\* report exactly "15".
C18_ChainReportsLast ==
    (/\ call.op = "finalize"
     /\ call.done
     /\ Len(call.results) = 3
     /\ \A i \in 1..3 : call.decision.action_plan[i].action_type = "tool_call"
     /\ CallNumbers = << 5, 10, 15 >>) =>
        call.out = "15"

Retrieved == call.op = "retrieve" /\ call.done

Range(seq) == {seq[i] : i \in DOMAIN seq}

QueryWords == Words(call.query)

\* C19 as stated: for a non-empty query, the facts that survive the filter
\* are exactly those whose overlap ratio |query /\ fact| / |query| is at
\* least min_relevance.
C19_SurvivorsByRatio ==
    (Retrieved /\ QueryWords # {}) =>
        Range(call.survivors) =
           {i \in DOMAIN call.facts :
              Overlap(call.facts[i], QueryWords) * 100
                 >= call.min_relevance * Cardinality(QueryWords)}

\* C19, amended: the survivors are exactly the facts that share at least
\* one word with the query and whose overlap ratio is at least
\* min_relevance; a query without words retrieves nothing.
C19_SurvivorsByRatioWithOverlap ==
    Retrieved =>
        Range(call.survivors) =
           {i \in DOMAIN call.facts :
              /\ Overlap(call.facts[i], QueryWords) > 0
              /\ Overlap(call.facts[i], QueryWords) * 100
                    >= call.min_relevance * Cardinality(QueryWords)}

\* Threshold 1.0 against the query "alpha beta": the two facts that match
\* half of the query words are dropped, the full match is kept.
C19_Witness ==
    /\ Retrieved
    /\ call.query = << "alpha", "beta" >>
    /\ call.min_relevance = 100
    /\ Len(call.facts) = 3
    /\ call.facts[1].content = << "alpha", "gamma" >>
    /\ call.facts[2].content = << "Beta" >>
    /\ call.facts[3].content = << "alpha", "beta" >>
    /\ call.survivors = << 3 >>

Score(i) == call.facts[i].relevance_score

\* i comes before j in the order retrieve uses.
Precedes(i, j) == Score(i) > Score(j) \/ (Score(i) = Score(j) /\ i < j)

IsPrefix(s, t) == Len(s) <= Len(t) /\ SubSeq(t, 1, Len(s)) = s

\* The contents of the facts a step added at the end of the store.
AppendedContents ==
    [i \in 1..(Len(stored_facts') - Len(stored_facts)) |->
        stored_facts'[Len(stored_facts) + i].content]

\* C21: the Fact Store only grows at its end.  Every step of a request,
\* and every start of a further request, leaves the facts already stored
\* in place and unchanged; the perception step appends one fact per
\* extracted fact, a successful action step one fact per fact to remember,
\* and every other step (the retrieval of the decision layer included)
\* leaves the store as it is.
C21_FactStoreAppendOnly ==
    [][/\ IsPrefix(stored_facts, stored_facts')
       /\ Len(stored_facts') >= Len(stored_facts)
       /\ IF pc = "perceive" /\ ~perception.cached /\ pc' = "scope_check"
          THEN AppendedContents = perception'.extracted_facts
          ELSE IF pc = "execute"
          THEN AppendedContents =
                  (IF action_results'[Len(action_results')].success
                   THEN action_results'[Len(action_results')].facts_to_remember
                   ELSE <<>>)
          ELSE stored_facts' = stored_facts]_vars

\* A second request has run on a store that kept the first request's facts.
C21_Witness ==
    /\ pc = "done"
    /\ \E i, j, k \in DOMAIN stored_facts :
          /\ i < j
          /\ j < k
          /\ stored_facts[i].source = "perception"
          /\ stored_facts[j].source = "action"
          /\ stored_facts[k].source = "perception"

Searched == call.op = "search"

StoredVecs == youtube_index.vecs

ExactScore == [num |-> 1, den |-> 1]

\* The search may be expected to reach record i: no filter, or the filter
\* of the record's own video.
FilterAdmits(i) ==
    call.video_id_filter = NoneVal \/ call.video_id_filter = youtube_metadata[i].video_id

\* C22 as stated: a search whose query is the stored embedding of a record
\* returns that record first, with similarity score 1.0.
C22_ExactQueryReturnsThatRecord ==
    Searched =>
        \A i \in DOMAIN StoredVecs :
           (Coords(StoredVecs[i]) = call.query /\ FilterAdmits(i)) =>
              /\ call.contexts # <<>>
              /\ call.contexts[1].idx = i
              /\ call.contexts[1].relevance_score = ExactScore

\* C22, amended: an unfiltered search whose query is the stored embedding of
\* a record returns first a record with exactly that embedding, scored 1.0;
\* it is that very record, also under the filter of its own video, when no
\* other stored record has the same embedding.
C22_ExactQueryReturnsAnExactMatch ==
    Searched =>
        \A i \in DOMAIN StoredVecs :
           (Coords(StoredVecs[i]) = call.query /\ FilterAdmits(i)) =>
              /\ call.video_id_filter = NoneVal =>
                    /\ call.contexts # <<>>
                    /\ Coords(StoredVecs[call.contexts[1].idx]) = call.query
                    /\ call.contexts[1].relevance_score = ExactScore
              /\ (\A j \in DOMAIN StoredVecs :
                     j # i => Coords(StoredVecs[j]) # call.query) =>
                    /\ call.contexts # <<>>
                    /\ call.contexts[1].idx = i
                    /\ call.contexts[1].relevance_score = ExactScore

\* Chunks 0 and 1 of both videos are stored; the query is the embedding of
\* chunk 1 of vidA, the second record, and it comes back first.
C22_Witness ==
    /\ Searched
    /\ Len(StoredVecs) = 4
    /\ StoredVecs[2] = Vec("vidA", 1)
    /\ StoredVecs[3] = Vec("vidB", 0)
    /\ call.query = Coords(Vec("vidA", 1))
    /\ call.video_id_filter = NoneVal
    /\ call.top_k = 2
    /\ call.contexts[1].idx = 2
    /\ call.contexts[1].relevance_score = ExactScore

DistanceTo(i) == Distance(Coords(StoredVecs[i]), call.query)

Returned == {call.contexts[a].idx : a \in DOMAIN call.contexts}

\* C23: a search returns at most top_k records, nearest first, each scored
\* 1/(1+d); without a filter they are the top_k nearest stored records; with
\* a filter every returned record is of that video and is one of the 3*top_k
\* nearest; on an empty index the result is empty and nothing is raised.
C23_SearchReturnsNearest ==
    Searched =>
        /\ Len(call.contexts) <= call.top_k
        /\ ~call.raised
        /\ \A a, b \in DOMAIN call.contexts :
              a < b => /\ call.contexts[a].dist <= call.contexts[b].dist
                       /\ call.contexts[a].idx # call.contexts[b].idx
        /\ \A a \in DOMAIN call.contexts :
              /\ call.contexts[a].idx \in DOMAIN StoredVecs
              /\ call.contexts[a].dist = DistanceTo(call.contexts[a].idx)
              /\ call.contexts[a].relevance_score =
                    [num |-> 1, den |-> 1 + DistanceTo(call.contexts[a].idx)]
        /\ call.video_id_filter = NoneVal =>
              /\ Len(call.contexts) =
                    (IF Len(StoredVecs) < call.top_k THEN Len(StoredVecs) ELSE call.top_k)
              /\ \A i \in Returned, j \in DOMAIN StoredVecs \ Returned :
                    DistanceTo(i) <= DistanceTo(j)
        /\ call.video_id_filter # NoneVal =>
              \A i \in Returned :
                 /\ youtube_metadata[i].video_id = call.video_id_filter
                 /\ Cardinality({j \in DOMAIN StoredVecs : DistanceTo(j) < DistanceTo(i)})
                       < 3 * call.top_k
        /\ Len(StoredVecs) = 0 => call.contexts = <<>>

\* A filtered search: the nearest record is of the other video and is
\* passed over, the nearest one of vidB is returned.
C23_Witness ==
    /\ Searched
    /\ Len(StoredVecs) = 4
    /\ StoredVecs[2] = Vec("vidA", 1)
    /\ StoredVecs[3] = Vec("vidB", 0)
    /\ call.query = Coords(Vec("vidA", 1))
    /\ call.video_id_filter = "vidB"
    /\ call.top_k = 1
    /\ Len(call.contexts) = 1
    /\ call.contexts[1].idx = 3
    /\ call.contexts[1].dist = 1

StatusQueried == call.op = "status"

\* C24: a status query for a video with an ingest record returns its
\* status, a progress within 0..100, total_chunks and the job's start_time,
\* and end_time (and for a failed job error) once the job has finished; a
\* query for a video without a record returns not-found.
C24_StatusQueryComplete ==
    StatusQueried =>
        IF indexing_status[call.video_id].present
        THEN /\ call.code = 200
             /\ call.body.status = indexing_status[call.video_id].status
             /\ call.body.progress \in 0..100
             /\ call.body.total_chunks = indexing_status[call.video_id].total_chunks
             /\ call.body.start_time # NoneVal
             /\ call.body.status \in {"completed", "failed"} =>
                   call.body.end_time # NoneVal
             /\ call.body.status = "failed" => call.body.error # NoneVal
        ELSE call.code = 404

\* C25: a failure while rotating or writing the snapshot file is swallowed.
\* Whatever the disk does, the step that saves raises nothing, leaves the
\* Fact Store as it was and ends the request with the success response
\* built from the final result, the one a successful write ends with.
C25_SnapshotFailureSwallowed ==
    [][pc = "finalize" =>
          /\ save_outcome'.called
          /\ raised' = raised
          /\ stored_facts' = stored_facts
          /\ pc' = "done"
          /\ response' = SuccessResponse(final_result')
          /\ response'.success]_vars

\* A request has ended after a save whose write failed, facts in the store.
C25_Witness ==
    /\ pc = "done"
    /\ save_outcome.called
    /\ save_outcome.write = "failed"
    /\ response.success
    /\ stored_facts # <<>>

PlanRunning == call.op = "plan"

\* C26: the steps of a plan run in ascending step_number order, whatever
\* order the oracle listed them in, and a placeholder RESULT_FROM_STEP_N is
\* replaced by the result of the step numbered N once that step has
\* succeeded.
C26_StepsRunInNumberOrder ==
    PlanRunning =>
        /\ \A i, j \in DOMAIN call.executed :
              i < j => call.executed[i].step_number < call.executed[j].step_number
        /\ \A j \in DOMAIN call.executed :
              (\E i \in 1..(j - 1) :
                  /\ call.executed[i].step_number = call.executed[j].ref
                  /\ call.executed[i].success)
                 => call.executed[j].dispatched.items["a"] = Num(10 * call.executed[j].ref)

CallsStarted == calls.perceive + calls.decide + calls.tool_call

\* C27: at every point of a request the iteration counter equals the
\* perceive calls plus the decide calls plus the tool_call steps started so
\* far; a response or query_memory step leaves it unchanged; and it never
\* decreases within the request.
C27_CounterCountsCalls ==
    [][/\ iteration = CallsStarted
       /\ iteration' = calls'.perceive + calls'.decide + calls'.tool_call
       /\ (pc = "execute" /\ decision.action_plan[step_idx].action_type # "tool_call")
             => iteration' = iteration
       /\ pc \notin {"idle", "done"} => iteration' >= iteration]_vars

\* One perceive call, two decide calls and one tool_call step, and a free
\* step executed beside them.
C27_Witness ==
    /\ calls = [perceive |-> 1, decide |-> 2, tool_call |-> 1]
    /\ iteration = 4
    /\ steps_executed > calls.tool_call

\* C28: within one request the perceive oracle is called at most once.  A
\* plan cycle after the first finds the perception cached, spends no unit
\* on it, calls nothing and goes on to DECIDE; a new request starts with no
\* cached perception and a counter of 0.
C28_PerceiveOncePerRequest ==
    [][/\ calls.perceive <= 1
       /\ calls'.perceive <= 1
       /\ (pc = "perceive" /\ cognitive_loop_count > 1) =>
             /\ perception.cached
             /\ pc' = "scope_check"
             /\ iteration' = iteration
             /\ perception' = perception
             /\ calls' = calls
       /\ (pc = "scope_check" /\ cognitive_loop_count > 1) =>
             (pc' = "decide" /\ iteration' = iteration)
       /\ pc \in {"idle", "done"} =>
             /\ perception' = NoPerception
             /\ ~perception'.cached
             /\ iteration' = 0
             /\ calls'.perceive = 0]_vars

\* The third plan cycle of a request is at DECIDE: one perceive call so far
\* and two decisions.
C28_Witness ==
    /\ pc = "decide"
    /\ cognitive_loop_count = 3
    /\ calls.perceive = 1
    /\ calls.decide = 2
    /\ iteration = 3

Finalized == call.op = "finalize" /\ call.done

\* The successful tool_call results whose text holds one of the five words.
MarkedResults ==
    {i \in DOMAIN call.results :
       /\ call.decision.action_plan[i].action_type = "tool_call"
       /\ call.results[i].success
       /\ WordsIn(call.results[i].result)
             \cap {"sent", "created", "added", "successfully", "failed"} # {}}

\* C29: a successful tool_call result whose text contains sent, created,
\* added, successfully or failed is classified as a status message, never
\* as a computation value, and the last such result is what finalization
\* reports when there is no computation value.
C29_MarkedTextIsStatus ==
    Finalized =>
        /\ \A i \in MarkedResults :
              ClassifyResult(i, call.results[i], call.decision.action_plan) = "status"
        /\ (/\ MarkedResults # {}
            /\ ComputationValues(1, call.results, call.decision.action_plan) = <<>>) =>
              \E i \in MarkedResults :
                 /\ \A j \in MarkedResults : j <= i
                 /\ call.out = call.results[i].result.text

Extracted == call.op = "extract" /\ call.done

\* The canonical keys of an object that hold a number or a boolean, as
\* positions in the priority order.
KeysWithValue(d) ==
    {k \in DOMAIN CommonKeys :
       HasKey(d, CommonKeys[k]) /\ Get(d, CommonKeys[k]).t \in {"num", "bool"}}

ListFields(d) == {i \in DOMAIN d : EndsInNumber(d[i].value)}

ValueFields(d) == {i \in DOMAIN d : d[i].value.t \in {"num", "bool"}}

Least(S) == CHOOSE x \in S : \A y \in S : x <= y

\* C30: on a JSON object extract_value returns the number or boolean under
\* the highest-priority canonical key that holds one; only when no
\* canonical key gives a value, the last element of a list of numbers; only
\* after that any numeric or boolean field; on text that does not parse,
\* the first numeric literal; and None when nothing is extractable.
C30_ExtractByPriority ==
    Extracted =>
        LET d == call.result.fields
        IN  call.out =
              (IF call.result.form # "object"
               THEN (IF call.result.numbers # <<>>
                     THEN Float(call.result.numbers[1]) ELSE Nothing)
               ELSE IF KeysWithValue(d) # {}
               THEN FormatValue(Get(d, CommonKeys[Least(KeysWithValue(d))]))
               ELSE IF ListFields(d) # {}
               THEN LastAsFloat(d[Least(ListFields(d))].value)
               ELSE IF ValueFields(d) # {}
               THEN FormatValue(d[Least(ValueFields(d))].value)
               ELSE Nothing)

\* ------------------------------------------------ the report text (C31)
\* A call of SpecReport has resolved its one parameter.
Reported == call.op = "resolve" /\ call.done /\ Cardinality(DOMAIN call.params.items) = 1

TokenKey == CHOOSE k \in DOMAIN call.params.items : TRUE

\* The placeholder string is the parameter's value itself (not a list item).
TokenDirect == call.params.items[TokenKey].kind = "str"

TokenStep ==
    IF TokenDirect THEN call.params.items[TokenKey].ref
    ELSE call.params.items[TokenKey].items[1].ref

Substituted ==
    IF TokenDirect THEN call.resolved.items[TokenKey]
    ELSE call.resolved.items[TokenKey].items[1]

TokenResolved == TokenStep \in DOMAIN call.results_map

ExtractedOfTokenStep == ExtractValueFromResult(call.results_map[TokenStep])

\* content, text, message, body or description, in any letter case
FreeTextName(k) == Lower(k) \in {"content", "text", "message", "body", "description"}

\* The numbers extractable from the results of the completed steps.
ComputedNumbers ==
    {ExtractValueFromResult(call.results_map[k]).num :
       k \in {j \in DOMAIN call.results_map :
                ExtractValueFromResult(call.results_map[j]) # NoValue}}

\* A report: the fixed header first, the fixed footer last, between them
\* the line of the original query (when there is one) and after it the
\* result line naming computed numbers.
IsReport(v) ==
    /\ v.kind = "str"
    /\ v.form = "email"
    /\ v.lines[1] = ReportHeader
    /\ v.lines[Len(v.lines)] = ReportFooter
    /\ \E j \in 2..(Len(v.lines) - 1) :
          /\ \E vs \in UNION {[1..n -> ComputedNumbers] : n \in 1..2} :
                v.lines[j] = "Result: " \o (IF Len(vs) = 1 THEN FormatResultAsString(vs[1])
                                            ELSE JoinValues(vs))
          /\ call.agent.initial_query # "" =>
                \E i \in 2..(j - 1) : v.lines[i] = "Query: " \o call.agent.initial_query

Expanded == call.op = "expand" /\ call.done

\* The records of the hit's group, and its neighbours by start_offset.
GroupOffsets(h) ==
    {call.metadata[i].start_timestamp :
       i \in {j \in DOMAIN call.metadata : call.metadata[j].video_id = h.video_id}}

Before(h) == {t \in GroupOffsets(h) : t < h.timestamp}

After(h) == {t \in GroupOffsets(h) : t > h.timestamp}

InExpanded(v, t) ==
    \E i \in DOMAIN call.expanded :
       call.expanded[i].video_id = v /\ call.expanded[i].timestamp = t

\* C32: for every hit, the expanded set contains the hit's immediate
\* predecessor and immediate successor among the records of its group
\* ordered by start_offset, whenever they exist.
C32_NeighboursIncluded ==
    Expanded =>
        \A k \in DOMAIN call.top_contexts :
           LET h == call.top_contexts[k]
           IN  /\ Before(h) # {} =>
                     InExpanded(h.video_id, CHOOSE t \in Before(h) : \A u \in Before(h) : u <= t)
               /\ After(h) # {} =>
                     InExpanded(h.video_id, CHOOSE t \in After(h) : \A u \in After(h) : t <= u)

\* C33: the expanded set has no two entries with the same (group_id,
\* start_offset), is sorted by start_offset ascending, holds at most three
\* entries per hit, and the call leaves the list of hits as it was.
C33_ExpandedIsCleanAndSorted ==
    [][ExpandCall =>
         /\ \A i, j \in DOMAIN call'.expanded :
               (i # j) => ChunkKey(call'.expanded[i].video_id, call'.expanded[i].timestamp)
                          # ChunkKey(call'.expanded[j].video_id, call'.expanded[j].timestamp)
         /\ \A i, j \in DOMAIN call'.expanded :
               (i < j) => call'.expanded[i].timestamp <= call'.expanded[j].timestamp
         /\ Len(call'.expanded) <= 3 * Len(call.top_contexts)
         /\ call'.top_contexts = call.top_contexts]_vars

\* Two hits that are neighbours of each other, given latest first, in a
\* video of three chunks, beside a second video: three entries, in offset
\* order, none twice.
C33_Witness ==
    /\ Expanded
    /\ Len(call.metadata) = 4
    /\ Len(call.top_contexts) = 2
    /\ call.top_contexts[1].video_id = "vidA"
    /\ call.top_contexts[2].video_id = "vidA"
    /\ call.top_contexts[1].timestamp = 6
    /\ call.top_contexts[2].timestamp = 4
    /\ Len(call.expanded) = 3
    /\ call.expanded[1].timestamp = 0
    /\ call.expanded[3].timestamp = 6

\* C37: every original hit is in the expanded set with its own similarity
\* score, whatever the order of the hits, and the synthetic weight 0.5 is
\* carried only by records that are not among the hits.
C37_HitsKeepTheirScore ==
    Expanded =>
        /\ \A k \in DOMAIN call.top_contexts :
              \E i \in DOMAIN call.expanded : call.expanded[i] = call.top_contexts[k]
        /\ \A i \in DOMAIN call.expanded :
              call.expanded[i].relevance_score = SyntheticScore =>
                 ~ \E k \in DOMAIN call.top_contexts :
                      /\ call.top_contexts[k].video_id = call.expanded[i].video_id
                      /\ call.top_contexts[k].timestamp = call.expanded[i].timestamp

\* C34: every request that has ended, with a result or with an error
\* response, called save_memory before its response was returned.
C34_SnapshotBeforeResponse ==
    response.returned => save_outcome.called

\* -------------------------------------------------- snapshot rotation (C35)
DiskRunning == call.op = "disk"

\* The saves whose files were rotated most recently, at most k of them.
LastRotated(k) ==
    {call.rotations[i] :
       i \in {j \in DOMAIN call.rotations : j > Len(call.rotations) - k}}

\* C35: a save rotates the snapshot file only when it has reached the size
\* threshold, renaming it under a timestamp name before the fresh file is
\* written; at most MAX_ROTATED_FILES rotated files exist, they are the
\* most recently rotated ones, and no rotation overwrites an earlier
\* rotated file.
C35_RotationKeepsLatest ==
    /\ DiskRunning =>
          /\ Cardinality(DOMAIN call.rotated) <= MAX_ROTATED_FILES
          /\ {call.rotated[n].written : n \in DOMAIN call.rotated}
                = LastRotated(MAX_ROTATED_FILES)
    /\ [][SaveMemory =>
            /\ (call'.rotations # call.rotations) =>
                  /\ call.file.exists
                  /\ call.file.size >= MAX_MEMORY_SIZE_MB
                  /\ RotatedName(call.now) \in DOMAIN call'.rotated
                  /\ call'.rotated[RotatedName(call.now)] = call.file
                  /\ RotatedName(call.now) \notin DOMAIN call.rotated
            /\ (call'.rotations = call.rotations) => call'.rotated = call.rotated]_vars

\* ------------------------------------------ results and their steps (C36)
\* The action type of the step that left an ActionResult behind, read off
\* what ActionLayer.execute returns for each type.
ProducedBy(ar) ==
    IF ar.error = "Memory query not yet implemented" THEN "query_memory"
    ELSE IF ar.success /\ ar.result = TextResult(ResponseMessage) THEN "response"
    ELSE "tool_call"

\* C36: when finalization runs, the ActionResult at position i of the
\* state's result list is the result of the step at position i of the plan
\* held in the state, also after more than one plan cycle: the list holds
\* only results of that plan's steps, in plan order, and so each result
\* meets its own step's action_type.
C36_ResultsAlignWithPlan ==
    (pc = "finalize" /\ decision.made) =>
        /\ Len(action_results) = step_idx - 1
        /\ \A i \in DOMAIN action_results :
              /\ i <= Len(decision.action_plan)
              /\ decision.action_plan[i].action_type = ProducedBy(action_results[i])

\* C38: the computed value written into the report that replaces
\* RESULT_FROM_STEP_N is the value extracted from the result of step N,
\* whatever other steps have completed.
C38_ReportHoldsValueOfStepN ==
    (Reported /\ TokenResolved /\ Substituted.form = "email") =>
        \E j \in DOMAIN Substituted.lines :
           Substituted.lines[j] = "Result: " \o FormatResultAsString(ExtractedOfTokenStep.num)

\* C39: for one job identity, the progress published in the status map
\* never decreases from the moment a job starts until the job is reported
\* completed, and a completed status is never afterwards replaced by
\* started or failed.
C39_ProgressMonotone ==
    [][\A v \in VideoIds :
          /\ (/\ indexing_status[v].present
              /\ indexing_status[v].status = "started"
              /\ indexing_status'[v].status \in {"started", "completed"})
                => indexing_status'[v].progress >= indexing_status[v].progress
          /\ (indexing_status[v].present /\ indexing_status[v].status = "completed")
                => indexing_status'[v].status \notin {"started", "failed"}]_vars

\* ------------------------------------------------ transcript grouping (C40)
Grouped == call.op = "group" /\ call.done

\* The text of segments i..j as the loop accumulates it.
RECURSIVE RunText(_, _, _)
RunText(data, i, j) ==
    IF j < i THEN << >> ELSE AddText(RunText(data, i, j - 1), data[j].text)

\* Segments first..m of a chunk make it one to close: its text ends a
\* sentence, it has the full number of characters, or it spans
\* max_duration, measured to the end of segment m (ByEnd) or to the start
\* of segment m (ByStart).
FullByEnd(data, first, m) ==
    GroupIsFullByEnd(RunText(data, first, m), data[first].start, data[m],
                     call.max_duration, call.max_chars)

FullByStart(data, first, m) ==
    \/ EndsWithPunctuation(RunText(data, first, m))
    \/ data[m].start - data[first].start >= call.max_duration
    \/ Len(RunText(data, first, m)) >= call.max_chars

\* last[k] is the last segment of chunk k: the chunks are consecutive runs
\* of segments in input order.
Cuts ==
    {last \in [DOMAIN call.grouped -> DOMAIN call.transcript_data] :
       \A k \in DOMAIN last : k > 1 => last[k - 1] < last[k]}

FirstOf(last, k) == IF k = 1 THEN 1 ELSE last[k - 1] + 1

\* Chunk k is the run FirstOf..last[k]: its text, its start and its end.
ChunkIsRun(last, k) ==
    LET data == call.transcript_data
        first == FirstOf(last, k)
    IN  /\ call.grouped[k].text = Strip(RunText(data, first, last[k]))
        /\ call.grouped[k].start_timestamp = data[first].start
        /\ call.grouped[k].end_timestamp = data[last[k]].start + data[last[k]].duration

====
